---- MODULE Spec2Model ----
(***************************************************************************)
(* Model of the knowledge-base generator:                                  *)
(*   - the Teamly processor (src/src/processors/teamly.py): the token      *)
(*     pair, _request with refresh-and-retry, paging, detail fetch,        *)
(*     grouping, chunk writing and upload;                                 *)
(*   - the Mattermost processor (src/src/processors/mattermost.py): the    *)
(*     window loop, thread bucketing, ordering and chunk emission.         *)
(* Spec   is a run of TeamlyProcessor (construction, then run()).          *)
(* SpecMM is a run of MattermostProcessor.run().                           *)
(***************************************************************************)
EXTENDS Integers, Sequences, FiniteSets, TLC

(***************************************************************************)
(* Bounds of the model.                                                    *)
(***************************************************************************)
\* The refresh endpoint issues at most this many token pairs in one run.
MaxIssued == 1
\* The largest lastPage the listing endpoint reports.
MaxPages == 2
\* The largest creation timestamp of a post (time runs over 1..MaxTs).
MaxTs == 4
\* The length of a day on the model's time axis.
DayMs == 2
\* PROCESSING_CHUNK_DAYS, scaled to the model's time axis.
ChunkDays == 1
\* Longest breadcrumb of the details payloads given to the exclusion test
MaxCrumbs == 2
\* The longest text clean_text is applied to.
MaxTextLen == 4

(***************************************************************************)
(* Token strings.  A token string is abstracted to its generation (which   *)
(* token the server issued) and whether it carries surrounding whitespace, *)
(* so that str.strip() is a real conversion.  gen = -1 is the empty        *)
(* string (pad: whitespace only); NoneTok is Python's None.                *)
(***************************************************************************)
Tok(g, p) == [gen |-> g, pad |-> p]
EmptyStr == Tok(-1, FALSE)
NoneTok == [gen |-> -2, pad |-> FALSE]

\* str.strip()
Strip(t) == [t EXCEPT !.pad = FALSE]

\* Python truthiness of an Optional[str]
Truthy(t) == t # NoneTok /\ t # EmptyStr

\* TeamlyProcessor._read_token_from_file: stripped content, or None when the
\* file is missing or empty (a missing file is modelled as empty content).
ReadTokenFromFile(content) ==
    IF Truthy(Strip(content)) THEN Strip(content) ELSE NoneTok

\* Mutant of WriteTokenToFile: the token is never written to its file.
WriteTokenToFileNoop(old, value, ioError) == old

\* TeamlyProcessor._write_token_to_file: writes value.strip(); an I/O error is
\* caught and logged, and the file keeps its content.
WriteTokenToFile(old, value, ioError) ==
    IF ioError THEN old ELSE Strip(value)

(***************************************************************************)
(* HTTP outcomes: a response with a status, or an exception raised by the  *)
(* requests library.                                                       *)
(***************************************************************************)
\* json tells whether the body of the response can be decoded by response.json().
Resp(s) == [exc |-> "none", status |-> s, json |-> TRUE]
Raised(e) == [exc |-> e, status |-> 0, json |-> TRUE]
NoResp == [exc |-> "none", status |-> 0, json |-> TRUE]
\* A 200 response whose body is not JSON: response.json() raises.
BadJson == [exc |-> "none", status |-> 200, json |-> FALSE]

Statuses == {200, 401, 403, 404, 500}
NetExcs == {"SSLError", "ConnectionError"}
Outcomes == {Resp(s) : s \in Statuses} \cup {Raised(e) : e \in NetExcs} \cup {BadJson}
RefreshStatuses == {200, 401, 500}
RefreshOutcomes == {Resp(s) : s \in RefreshStatuses} \cup {Raised("ConnectionError")}

\* The classes an exception is an instance of (requests.exceptions).
Bases(e) ==
    CASE e = "SSLError" -> {"SSLError", "ConnectionError", "RequestException", "Exception"}
      [] e = "ConnectionError" -> {"ConnectionError", "RequestException", "Exception"}
      [] e = "HTTPError" -> {"HTTPError", "RequestException", "Exception"}
      [] e = "IOError" -> {"IOError", "Exception"}
      [] e = "JSONDecodeError" -> {"JSONDecodeError", "ValueError", "Exception"}
      [] e = "HttpError" -> {"HttpError", "Exception"}
      [] e = "TimeoutError" -> {"TimeoutError", "OSError", "Exception"}
      [] OTHER -> {}

IsInstance(e, cls) == cls \in Bases(e)

\* Response.raise_for_status raises HTTPError for 4xx and 5xx.
RaisesForStatus(s) == s >= 400 /\ s < 600

\* Mutant of Unauthorized: 404 is taken for an authorization failure too.
UnauthorizedWide(s) == s \in {401, 403, 404}

Unauthorized(s) == s \in {401, 403}

\* What `response = self._request(...); response.raise_for_status()` raises:
\* the exception of the request itself, or HTTPError, or nothing.
RaisedBy(out) ==
    IF out.exc # "none" THEN out.exc
    ELSE IF RaisesForStatus(out.status) THEN "HTTPError" ELSE "none"

\* The index of the first except clause matching exception e, 0 when none does.
FirstHandler(e, clauses) ==
    IF \E i \in 1..Len(clauses) : IsInstance(e, clauses[i])
    THEN CHOOSE i \in 1..Len(clauses) :
            /\ IsInstance(e, clauses[i])
            /\ \A j \in 1..(i - 1) : ~IsInstance(e, clauses[j])
    ELSE 0

(***************************************************************************)
(* The wiki served by the content API.                                     *)
(***************************************************************************)
\* TEAMLY_EXCLUDED_ARTICLE_IDS
Excluded == {"x1"}

NoData == [id |-> "", title |-> "", breadcrumbs |-> <<>>, parent |-> "", text |-> ""]

\* The details payload of an item: title, breadcrumb sourceIds, relatedParentId
\* and the text extracted from editorContentObject (already cleaned). A
\* breadcrumb entry "" is a node without sourceId; e1 is an untitled empty page.
Details(id) ==
    CASE id = "g1" -> [id |-> "g1", title |-> "G 1", breadcrumbs |-> <<"root", "g1">>, parent |-> "root", text |-> "tg1"]
      [] id = "a1" -> [id |-> "a1", title |-> "A1", breadcrumbs |-> <<"root", "g1">>, parent |-> "g1", text |-> "ta1"]
      [] id = "a2" -> [id |-> "a2", title |-> "A2", breadcrumbs |-> <<"root", "g2">>, parent |-> "g2", text |-> ""]
      [] id = "a3" -> [id |-> "a3", title |-> "A3", breadcrumbs |-> <<"root", "g2", "x1">>, parent |-> "x1", text |-> "ta3"]
      [] id = "a4" -> [id |-> "a4", title |-> "A4", breadcrumbs |-> <<"root", "", "g1">>, parent |-> "", text |-> "ta4"]
      [] id = "e1" -> [id |-> "e1", title |-> "", breadcrumbs |-> <<"root", "g1">>, parent |-> "g1", text |-> ""]
      [] id = "g2" -> [id |-> "g2", title |-> "G_1", breadcrumbs |-> <<"root">>, parent |-> "root", text |-> "tg2"]
      [] OTHER -> NoData

\* The items of the tree listing, page by page.
PageItems(p) ==
    CASE p = 1 -> <<"a1", "g1", "e1", "x1">>
      [] p = 2 -> <<"a2", "a3", "a4">>
      [] OTHER -> <<>>

\* re.sub(r"[^\w\-_. ]+", "_", name).replace(" ", "_") on the titles of the wiki
SafeName(name) ==
    CASE name = "G 1" -> "G_1"
      [] OTHER -> name

RECURSIVE FilterSeq(_, _)
\* [it for it in items if str(it.get("id")) not in excluded]
FilterSeq(s, banned) ==
    IF s = <<>> THEN <<>>
    ELSE IF Head(s) \in banned THEN FilterSeq(Tail(s), banned)
         ELSE <<Head(s)>> \o FilterSeq(Tail(s), banned)

SeqSet(s) == {s[i] : i \in 1..Len(s)}

VARIABLES
    accessToken,      \* self._access_token
    refreshToken,     \* self._refresh_token
    fileAccess,       \* content of teamly_access_token.txt
    fileRefresh,      \* content of teamly_refresh_token.txt
    staleFiles,       \* token files whose last write failed (warning logged)
    issued,           \* generation of the last token pair issued by the server
    rq,               \* the _request call in progress
    pc,               \* position of TeamlyProcessor.run
    page,             \* list_all_articles: page
    srvLastPage,      \* pagination.lastPage reported by the listing endpoint
    pageLog,          \* the pages list_articles_page was called for, in order
    allItems,         \* list_all_articles: all_items / run: articles
    idx,              \* run: index into articles / groups / txt paths
    detailsCache,     \* run: details_cache
    cleanedTextCache, \* run: cleaned_text_cache
    groups,           \* run: groups, key -> list of ids
    groupOrder,       \* insertion order of the keys of groups
    groupTitles,      \* run: group_titles
    chunks,           \* files written in the temp dir: name -> content
    combinedPaths,    \* run: combined_txt_paths
    uploads,          \* files uploaded to the sink
    tempCleared,      \* the local temp dir was cleared
    sinkCleared,      \* delete_files_in_folder was called
    fetches,          \* the calls of get_article_details, in order: id, caller, result
    skipLog,          \* ids logged as skipped because they or an ancestor are excluded
    runError          \* exception that propagated out of run, "none" otherwise

teamlyVars == <<accessToken, refreshToken, fileAccess, fileRefresh, staleFiles,
                issued, rq, pc, page, srvLastPage, pageLog, allItems, idx, detailsCache,
                cleanedTextCache, groups, groupOrder, groupTitles, chunks,
                combinedPaths, uploads, tempCleared, sinkCleared, fetches, skipLog, runError>>

tokenVars == <<accessToken, refreshToken, fileAccess, fileRefresh, staleFiles, issued>>
runVars == <<pc, page, srvLastPage, allItems, idx, detailsCache, cleanedTextCache,
             groups, groupOrder, groupTitles, chunks, combinedPaths, uploads,
             tempCleared, sinkCleared, fetches, skipLog, runError>>

VARIABLES
    mmEnv,            \* what the run finds: a Drive service, a destination folder id
    mmPosts,          \* the Posts table, in table order
    mmStartTs,        \* start_ts of get_posts_date_range (now - TOTAL_SEARCH_PERIOD_DAYS)
    mmPc,             \* position of MattermostProcessor.run
    currentDate,      \* run: current_date
    chanIdx,          \* index of the channel of the pair processed next
    mmChunks,         \* chunk files written, in order
    mmUploads,        \* chunk files handed to upload_file_to_gdrive, in order
    mmSinkCleared,    \* delete_files_in_folder was called
    mmWindows,        \* the windows the loop has entered: period_start_ts, period_end_ts
    mmPairs           \* the (channel, window) pairs processed: roots, buckets, outcome

mmVars == <<mmEnv, mmPosts, mmStartTs, mmPc, currentDate, chanIdx, mmChunks, mmUploads,
            mmSinkCleared, mmWindows, mmPairs>>

VARIABLES
    sample            \* a text and the results of clean_text applied once and twice

textVars == <<sample>>

VARIABLES
    sink,             \* the files of the sink folder that are not trashed
    dRun,             \* the run of the processor: "first", then "rerun"
    dPc,              \* position of the run: clearing, item loop, uploads
    dPending,         \* delete_files_in_folder: the items the loop has not reached yet
    dLast,            \* delete_files_in_folder: the item handled last and what was done
    dClearEnd,        \* how delete_files_in_folder of this run ended, "" before
    dKept,            \* files left in the folder by delete_files_in_folder of this run
    dRaised,          \* an exception left delete_files_in_folder or upload_file_to_gdrive
    dChunk,           \* index of the chunk uploaded next
    up,               \* upload_file_to_gdrive: as_gdoc, attempt, delay, fallback, calls
    dSnap             \* the names of the files in the sink after the first run

driveVars == <<sink, dRun, dPc, dPending, dLast, dClearEnd, dKept, dRaised, dChunk,
               up, dSnap>>

VARIABLES
    cEntry,           \* the entry point: "cli" for src/cli.py, "main" for main.py
    cArgs,            \* args.processors, as a set of names
    cToRun,           \* processors_to_run
    cPc,              \* position of main
    cStarted,         \* the processors started, in order
    cFailed,          \* the processor that raised, "" when none did
    cCaught,          \* how often the except clause of main ran
    cPropagated,      \* an exception left main
    cGen,             \* the generator made by get_db(): "none", "suspended", "closed"
    cCloses           \* how often close() was called on the database session

cliVars == <<cEntry, cArgs, cToRun, cPc, cStarted, cFailed, cCaught, cPropagated,
             cGen, cCloses>>

\* The variables of the other parts of the program, for each part.
notTeamlyVars == <<mmVars, textVars, driveVars, cliVars>>
notMMVars == <<teamlyVars, textVars, driveVars, cliVars>>
notTextVars == <<teamlyVars, mmVars, driveVars, cliVars>>
notDriveVars == <<teamlyVars, mmVars, textVars, cliVars>>
notCliVars == <<teamlyVars, mmVars, textVars, driveVars>>

vars == <<teamlyVars, mmVars, textVars, driveVars, cliVars>>

IdleRq == [pc |-> "idle", caller |-> "", arg |-> "", sent |-> 0, refreshCalls |-> 0,
           first |-> NoResp, resp |-> NoResp, bearers |-> <<>>,
           tok0 |-> <<NoneTok, NoneTok, NoneTok, NoneTok>>,
           body |-> [access |-> NoneTok, refresh |-> NoneTok], refreshResult |-> ""]

\* Entry of TeamlyProcessor._request for a caller; tok0 records the token pair
\* and its persisted copies at entry.
NewRequest(caller, arg) ==
    [IdleRq EXCEPT !.pc = "send1", !.caller = caller, !.arg = arg,
                   !.tok0 = <<accessToken, refreshToken, fileAccess, fileRefresh>>]

\* Mutant of Bearer: the retried request reuses the headers built at entry.
BearerStale == rq.tok0[1]

\* TeamlyProcessor.headers: the bearer is built from the current access token.
Bearer == accessToken

InitFiles == {EmptyStr, Tok(0, TRUE)}

\* State after TeamlyProcessor.__init__: tokens are read from the token files.
InitTeamly ==
    /\ fileAccess \in InitFiles
    /\ fileRefresh \in InitFiles
    /\ accessToken = ReadTokenFromFile(fileAccess)
    /\ refreshToken = ReadTokenFromFile(fileRefresh)
    /\ staleFiles = {}
    /\ issued = 0
    /\ rq = IdleRq
    /\ pc = "start"
    /\ page = 1
    /\ srvLastPage \in 1..MaxPages
    /\ pageLog = <<>>
    /\ allItems = <<>>
    /\ idx = 1
    /\ detailsCache = [k \in {} |-> NoData]
    /\ cleanedTextCache = [k \in {} |-> ""]
    /\ groups = [k \in {} |-> <<>>]
    /\ groupOrder = <<>>
    /\ groupTitles = [k \in {} |-> ""]
    /\ chunks = [k \in {} |-> <<>>]
    /\ combinedPaths = <<>>
    /\ uploads = <<>>
    /\ tempCleared = FALSE
    /\ sinkCleared = FALSE
    /\ fetches = <<>>
    /\ skipLog = <<>>
    /\ runError = "none"

\* A flag that is set as soon as there is an access token.
TokensReadyAccessOnly == Truthy(accessToken)

\* self._tokens_ready
TokensReady == Truthy(accessToken) /\ Truthy(refreshToken)

(***************************************************************************)
(* TeamlyProcessor._request                                                *)
(***************************************************************************)
\* The first requests.request of _request.
Send1 ==
    /\ rq.pc = "send1"
    /\ \E out \in Outcomes :
         rq' = [rq EXCEPT !.sent = @ + 1,
                          !.bearers = Append(@, Bearer),
                          !.first = out,
                          !.resp = out,
                          !.pc = IF out.exc = "none" /\ Unauthorized(out.status)
                                 THEN "refresh" ELSE "done"]
    /\ UNCHANGED <<tokenVars, runVars, pageLog>>
    /\ UNCHANGED notTeamlyVars

\* The bodies the refresh endpoint may answer with: a new access token or none,
\* and a new refresh token or none; the tokens come padded with whitespace, the
\* case in which the strip of the file write differs from the identity.
RefreshBodies ==
    [access : {NoneTok, Tok(issued + 1, TRUE)},
     refresh : {NoneTok, Tok(issued + 1, TRUE)}]

\* Mutant of UpdateTokensFromResponse: the refresh token of the response is
\* stored before the access token is looked at.
UpdateTokensEager(body, ioA, ioR) ==
    [ok |-> Truthy(body.access),
     access |-> IF Truthy(body.access) THEN body.access ELSE accessToken,
     refresh |-> IF Truthy(body.refresh) THEN body.refresh ELSE refreshToken,
     fileA |-> IF Truthy(body.access)
               THEN WriteTokenToFile(fileAccess, body.access, ioA) ELSE fileAccess,
     fileR |-> IF Truthy(body.refresh)
               THEN WriteTokenToFile(fileRefresh, body.refresh, ioR) ELSE fileRefresh,
     stale |-> (staleFiles \ ((IF Truthy(body.access) THEN {"access"} ELSE {}) \cup
                   (IF Truthy(body.refresh) THEN {"refresh"} ELSE {})))
               \cup (IF Truthy(body.access) /\ ioA THEN {"access"} ELSE {})
               \cup (IF Truthy(body.refresh) /\ ioR THEN {"refresh"} ELSE {})]

\* _update_tokens_from_response: without an access token nothing changes and
\* False is returned; otherwise the access token is replaced, the refresh
\* token too when the response carries one, and each replaced token is
\* written to its file (ioA, ioR: the write raises an I/O error).
UpdateTokensFromResponse(body, ioA, ioR) ==
    IF ~Truthy(body.access)
    THEN [ok |-> FALSE, access |-> accessToken, refresh |-> refreshToken,
          fileA |-> fileAccess, fileR |-> fileRefresh, stale |-> staleFiles]
    ELSE [ok |-> TRUE,
          access |-> body.access,
          refresh |-> IF Truthy(body.refresh) THEN body.refresh ELSE refreshToken,
          fileA |-> WriteTokenToFile(fileAccess, body.access, ioA),
          fileR |-> IF Truthy(body.refresh)
                    THEN WriteTokenToFile(fileRefresh, body.refresh, ioR)
                    ELSE fileRefresh,
          stale |-> (staleFiles \ ({"access"} \cup
                        (IF Truthy(body.refresh) THEN {"refresh"} ELSE {})))
                    \cup (IF ioA THEN {"access"} ELSE {})
                    \cup (IF Truthy(body.refresh) /\ ioR THEN {"refresh"} ELSE {})]

\* refresh_token (called from _request after a 401/403), and the rest of
\* _request up to the retried request.
RefreshToken ==
    /\ rq.pc = "refresh"
    /\ \E out \in RefreshOutcomes :
         \/ \* requests.post raises: the exception leaves _request
            /\ out.exc # "none"
            /\ rq' = [rq EXCEPT !.refreshCalls = @ + 1, !.resp = out,
                                !.refreshResult = "raised", !.pc = "done"]
            /\ UNCHANGED tokenVars
         \/ \* HTTP error status: logged, refresh_token returns None
            /\ out.exc = "none" /\ RaisesForStatus(out.status)
            /\ rq' = [rq EXCEPT !.refreshCalls = @ + 1,
                                !.refreshResult = "http_error", !.pc = "done"]
            /\ UNCHANGED tokenVars
         \/ \* response.json() is handed to _update_tokens_from_response
            /\ out.exc = "none" /\ ~RaisesForStatus(out.status)
            /\ \E body \in RefreshBodies, ioA \in BOOLEAN, ioR \in BOOLEAN :
                 LET upd == UpdateTokensFromResponse(body, ioA, ioR)
                 IN  /\ upd.ok => issued < MaxIssued
                     /\ accessToken' = upd.access
                     /\ refreshToken' = upd.refresh
                     /\ fileAccess' = upd.fileA
                     /\ fileRefresh' = upd.fileR
                     /\ staleFiles' = upd.stale
                     /\ issued' = IF upd.ok THEN issued + 1 ELSE issued
                     /\ rq' = [rq EXCEPT !.refreshCalls = @ + 1, !.body = body,
                                         !.refreshResult = IF upd.ok THEN "ok" ELSE "no_access",
                                         !.pc = IF upd.ok THEN "send2" ELSE "done"]
    /\ UNCHANGED <<runVars, pageLog>>
    /\ UNCHANGED notTeamlyVars

\* Mutant of Send2: an unauthorized retry goes back to the refresh.
Send2Recursive ==
    /\ rq.pc = "send2"
    /\ \E out \in Outcomes :
         rq' = [rq EXCEPT !.sent = @ + 1,
                          !.bearers = Append(@, Bearer),
                          !.resp = out,
                          !.pc = IF out.exc = "none" /\ out.status \in {401, 403}
                                 THEN "refresh" ELSE "done"]
    /\ UNCHANGED <<tokenVars, runVars, pageLog>>
    /\ UNCHANGED notTeamlyVars

\* The retried requests.request, with the headers rebuilt from self.headers.
Send2 ==
    /\ rq.pc = "send2"
    /\ \E out \in Outcomes :
         rq' = [rq EXCEPT !.sent = @ + 1,
                          !.bearers = Append(@, Bearer),
                          !.resp = out,
                          !.pc = "done"]
    /\ UNCHANGED <<tokenVars, runVars, pageLog>>
    /\ UNCHANGED notTeamlyVars

(***************************************************************************)
(* Helpers of TeamlyProcessor used by run                                  *)
(***************************************************************************)
\* dict[key] = value
Put(f, k, v) == [x \in (DOMAIN f) \cup {k} |-> IF x = k THEN v ELSE f[x]]

\* get_article_details: the try block is `_request` and raise_for_status; the
\* except clauses are tried in the order they are written.  The result either
\* raises an exception or returns data (NoData is the empty dict).
\* Mutant of DetailsExceptClauses: no clause for network failures.
DetailsExceptHttpOnly == <<"HTTPError">>

DetailsExceptClauses == <<"SSLError", "RequestException", "HTTPError">>

GetArticleDetails(out, id) ==
    LET e == RaisedBy(out)
        h == FirstHandler(e, DetailsExceptClauses)
        clause == IF h = 0 THEN "" ELSE DetailsExceptClauses[h]
    IN  IF e = "none"
        THEN IF out.json THEN [raises |-> "none", data |-> Details(id)]
             ELSE [raises |-> "JSONDecodeError", data |-> NoData]
        ELSE IF clause = "SSLError" THEN [raises |-> "none", data |-> NoData]
        ELSE IF clause = "RequestException" THEN [raises |-> "none", data |-> NoData]
        ELSE IF clause = "HTTPError" /\ out.status = 404 THEN [raises |-> "none", data |-> NoData]
        ELSE [raises |-> e, data |-> NoData]

\* Mutant of ListArticlesPageResult: a failed page is logged and taken as empty.
ListArticlesPageSwallow(out, p) ==
    IF RaisedBy(out) # "none" THEN [raises |-> "none", items |-> <<>>]
    ELSE [raises |-> "none", items |-> FilterSeq(PageItems(p), Excluded)]

\* A page returned as the endpoint sent it, the excluded ids included.
ListArticlesPageUnfiltered(out, p) ==
    IF RaisedBy(out) # "none" THEN [raises |-> RaisedBy(out), items |-> <<>>]
    ELSE IF ~out.json THEN [raises |-> "JSONDecodeError", items |-> <<>>]
    ELSE [raises |-> "none", items |-> PageItems(p)]

\* list_articles_page after _request: raise_for_status re-raised, otherwise the
\* page's items without the excluded ids.
ListArticlesPageResult(out, p) ==
    LET e == RaisedBy(out)
    IN  IF e # "none" THEN [raises |-> e, items |-> <<>>]
        ELSE IF ~out.json THEN [raises |-> "JSONDecodeError", items |-> <<>>]
        ELSE [raises |-> "none", items |-> FilterSeq(PageItems(p), Excluded)]

\* _title_from_details
TitleFromDetails(data) == data.title

\* The sourceId of the first breadcrumb entry.
FirstLevelIdFromDetails(data) ==
    IF Len(data.breadcrumbs) >= 1 THEN data.breadcrumbs[1] ELSE ""

\* _second_level_id_from_details ("" stands for None)
SecondLevelIdFromDetails(data) ==
    IF Len(data.breadcrumbs) >= 2 THEN data.breadcrumbs[2] ELSE ""

\* Ancestors taken from the breadcrumbs alone.
AncestorIdsBreadcrumbsOnly(data) == SeqSet(data.breadcrumbs) \ {""}

\* _ancestor_ids_from_details: the sourceIds of the breadcrumb nodes that have
\* one, and relatedParentId when it is set
AncestorIdsFromDetails(data) ==
    (SeqSet(data.breadcrumbs) \ {""}) \cup (IF data.parent # "" THEN {data.parent} ELSE {})

\* A test of the item's own id only.
IsExcludedOnly(id, data) == id \in Excluded

\* _is_excluded_or_descendant
IsExcludedOrDescendant(id, data) ==
    \/ id \in Excluded
    \/ \E anc \in AncestorIdsFromDetails(data) : anc \in Excluded

\* get_article_clean_text_from_data: the editor text, else the title
CleanTextFromData(data) == IF data.text # "" THEN data.text ELSE data.title

(***************************************************************************)
(* TeamlyProcessor.run                                                     *)
(***************************************************************************)
\* run up to the listing: token check, Drive service, clearing of the local
\* temp dir and of the sink folder.
RunStart ==
    /\ pc = "start"
    /\ \/ /\ ~TokensReady
          /\ pc' = "done"
          /\ UNCHANGED <<tempCleared, sinkCleared>>
       \/ /\ TokensReady
          /\ \E service \in BOOLEAN :
               IF service
               THEN /\ tempCleared' = TRUE
                    /\ sinkCleared' = TRUE
                    /\ pc' = "list"
               ELSE /\ pc' = "done"
                    /\ UNCHANGED <<tempCleared, sinkCleared>>
    /\ UNCHANGED <<tokenVars, rq, page, srvLastPage, pageLog, allItems, idx, detailsCache,
                   cleanedTextCache, groups, groupOrder, groupTitles, chunks,
                   combinedPaths, uploads, fetches, skipLog, runError>>
    /\ UNCHANGED notTeamlyVars

\* list_all_articles: the loop calls list_articles_page(page), which calls _request.
ListArticlesPage ==
    /\ pc = "list"
    /\ rq.pc = "idle"
    /\ rq' = NewRequest("page", "")
    /\ pageLog' = Append(pageLog, page)
    /\ UNCHANGED <<tokenVars, runVars>>
    /\ UNCHANGED notTeamlyVars

\* A loop that goes on until the page number has passed last_page.
LastPageReachedLate(p, lastPage) == p > lastPage

\* if page >= last_page: break
LastPageReached(p, lastPage) == p >= lastPage

\* list_articles_page after _request returned, and the rest of the loop body of
\* list_all_articles; an exception propagates out of run.
ListPageReturn ==
    /\ pc = "list"
    /\ rq.pc = "done"
    /\ rq.caller = "page"
    /\ rq' = IdleRq
    /\ LET res == ListArticlesPageResult(rq.resp, page)
           all == allItems \o res.items
       IN  IF res.raises # "none"
           THEN /\ runError' = res.raises
                /\ pc' = "aborted"
                /\ UNCHANGED <<page, allItems, idx>>
           ELSE /\ allItems' = all
                /\ runError' = runError
                /\ IF LastPageReached(page, srvLastPage)
                   THEN /\ pc' = IF all = <<>> THEN "done" ELSE "details"
                        /\ idx' = 1
                        /\ page' = page
                   ELSE /\ page' = page + 1
                        /\ pc' = "list"
                        /\ idx' = idx
    /\ UNCHANGED <<tokenVars, srvLastPage, pageLog, detailsCache, cleanedTextCache, groups,
                   groupOrder, groupTitles, chunks, combinedPaths, uploads,
                   tempCleared, sinkCleared, fetches, skipLog>>
    /\ UNCHANGED notTeamlyVars

\* A call of get_article_details(id) is entered in the log.
Called(log, id, by) == Append(log, [id |-> id, by |-> by, result |-> "pending"])

\* The result of get_article_details: "raised", "empty" for {} and "data".
ResultOf(res) ==
    IF res.raises # "none" THEN "raised"
    ELSE IF res.data = NoData THEN "empty" ELSE "data"

\* The call entered last has returned.
Returned(log, res) == [log EXCEPT ![Len(log)].result = ResultOf(res)]

\* The details loop: get_article_details(art.id) calls _request.
FetchDetails ==
    /\ pc = "details"
    /\ rq.pc = "idle"
    /\ idx <= Len(allItems)
    /\ rq' = NewRequest("details", allItems[idx])
    /\ fetches' = Called(fetches, allItems[idx], "item")
    /\ UNCHANGED <<tokenVars, pc, page, srvLastPage, pageLog, allItems, idx, detailsCache,
                   cleanedTextCache, groups, groupOrder, groupTitles, chunks,
                   combinedPaths, uploads, tempCleared, sinkCleared, skipLog, runError>>
    /\ UNCHANGED notTeamlyVars

\* The end of one iteration of the details loop.
AfterArticle ==
    IF idx + 1 > Len(allItems)
    THEN pc' = "combine" /\ idx' = 1
    ELSE pc' = "details" /\ idx' = idx + 1

\* groups.setdefault(key, []).append(id)
AddToGroup(key, id) ==
    /\ groups' = Put(groups, key, (IF key \in DOMAIN groups THEN groups[key] ELSE <<>>) \o <<id>>)
    /\ groupOrder' = IF key \in DOMAIN groups THEN groupOrder ELSE Append(groupOrder, key)

\* The body of the details loop after get_article_details(art.id) returned,
\* up to the fetch of the group node's title when that is needed.
DetailsReturn ==
    /\ pc = "details"
    /\ rq.pc = "done"
    /\ rq.caller = "details"
    /\ LET id == rq.arg
           res == GetArticleDetails(rq.resp, id)
           data == res.data
           second == SecondLevelIdFromDetails(data)
           cache == Put(detailsCache, id, data)
           log == Returned(fetches, res)
       IN  IF res.raises # "none"
           THEN /\ runError' = res.raises
                /\ pc' = "aborted"
                /\ rq' = IdleRq
                /\ fetches' = log
                /\ UNCHANGED <<idx, detailsCache, cleanedTextCache, groups, groupOrder,
                               groupTitles, skipLog>>
           ELSE IF data = NoData \/ IsExcludedOrDescendant(id, data)
           THEN /\ AfterArticle
                /\ rq' = IdleRq
                /\ fetches' = log
                /\ skipLog' = IF data = NoData THEN skipLog ELSE Append(skipLog, id)
                /\ UNCHANGED <<detailsCache, cleanedTextCache, groups, groupOrder,
                               groupTitles, runError>>
           ELSE /\ detailsCache' = cache
                /\ runError' = runError
                /\ skipLog' = skipLog
                /\ IF second = ""
                   THEN /\ cleanedTextCache' = Put(cleanedTextCache, id, CleanTextFromData(data))
                        /\ AfterArticle
                        /\ rq' = IdleRq
                        /\ fetches' = log
                        /\ UNCHANGED <<groups, groupOrder, groupTitles>>
                   ELSE /\ AddToGroup(second, id)
                        /\ IF second \in DOMAIN groupTitles
                           THEN /\ cleanedTextCache' = Put(cleanedTextCache, id, CleanTextFromData(data))
                                /\ AfterArticle
                                /\ rq' = IdleRq
                                /\ fetches' = log
                                /\ UNCHANGED groupTitles
                           ELSE IF second \in DOMAIN cache
                           THEN /\ groupTitles' = Put(groupTitles, second, TitleFromDetails(cache[second]))
                                /\ cleanedTextCache' = Put(cleanedTextCache, id, CleanTextFromData(data))
                                /\ AfterArticle
                                /\ rq' = IdleRq
                                /\ fetches' = log
                           ELSE /\ rq' = [NewRequest("grouptitle", second) EXCEPT !.arg = second]
                                /\ fetches' = Called(log, second, "title")
                                /\ pc' = "grouptitle"
                                /\ UNCHANGED <<idx, cleanedTextCache, groupTitles>>
    /\ UNCHANGED <<tokenVars, page, srvLastPage, pageLog, allItems, chunks, combinedPaths,
                   uploads, tempCleared, sinkCleared>>
    /\ UNCHANGED notTeamlyVars

\* The fetch of the second-level node's details for the group title returned:
\* `except Exception` stores an empty title; then the article's cleaned text is
\* cached and the loop goes on.
GroupTitleReturn ==
    /\ pc = "grouptitle"
    /\ rq.pc = "done"
    /\ rq.caller = "grouptitle"
    /\ rq' = IdleRq
    /\ LET second == rq.arg
           id == allItems[idx]
           res == GetArticleDetails(rq.resp, second)
       IN  /\ IF res.raises # "none"
              THEN /\ groupTitles' = Put(groupTitles, second, "")
                   /\ UNCHANGED detailsCache
              ELSE IF res.data # NoData
              THEN /\ detailsCache' = Put(detailsCache, second, res.data)
                   /\ groupTitles' = Put(groupTitles, second, TitleFromDetails(res.data))
              ELSE UNCHANGED <<detailsCache, groupTitles>>
           /\ cleanedTextCache' = Put(cleanedTextCache, id, CleanTextFromData(detailsCache[id]))
           /\ fetches' = Returned(fetches, res)
    /\ AfterArticle
    /\ UNCHANGED <<tokenVars, page, srvLastPage, pageLog, allItems, groups, groupOrder, chunks,
                   combinedPaths, uploads, tempCleared, sinkCleared, skipLog, runError>>
    /\ UNCHANGED notTeamlyVars

\* All members of the group, the group node included.
ChildIdsAll(key, ids) == ids

\* child_ids = [aid for aid in article_ids if aid != second_id]
ChildIds(key, ids) == FilterSeq(ids, {key})

RECURSIVE CombinedChunks(_, _)
\* combined_chunks: (title or id, text) of the members with non-empty text
CombinedChunks(ids, texts) ==
    IF ids = <<>> THEN <<>>
    ELSE LET aid == Head(ids)
             title == IF TitleFromDetails(detailsCache[aid]) # ""
                      THEN TitleFromDetails(detailsCache[aid]) ELSE aid
         IN  (IF texts[aid] = "" THEN <<>> ELSE <<[id |-> aid, title |-> title, text |-> texts[aid]]>>)
             \o CombinedChunks(Tail(ids), texts)

\* A label that is always the raw group key.
FolderNameRaw(titles, key) == key

\* folder_name = group_titles.get(second_id) or second_id
FolderName(titles, key) ==
    IF key \in DOMAIN titles /\ titles[key] # "" THEN titles[key] ELSE key

\* A path list that gets the file also when writing it failed.
WrittenPathsAlways(paths, file, ioError) == Append(paths, file)

\* combined_txt_paths.append(combined_txt) is the statement after the `with`
\* block inside the try: it is skipped when writing raised.
WrittenPaths(paths, file, ioError) == IF ioError THEN paths ELSE Append(paths, file)

\* One iteration of the loop over groups.items(): the combined TXT of a group is
\* built from its members other than the group node and written; an I/O error
\* of the write is logged.
CombineGroup ==
    /\ pc = "combine"
    /\ IF idx > Len(groupOrder)
       THEN /\ pc' = "upload"
            /\ idx' = 1
            /\ UNCHANGED <<chunks, combinedPaths>>
       ELSE LET key == groupOrder[idx]
                childIds == ChildIds(key, groups[key])
                blocks == CombinedChunks(childIds, cleanedTextCache)
                folderName == FolderName(groupTitles, key)
                file == SafeName(folderName)
            IN  /\ idx' = idx + 1
                /\ pc' = pc
                /\ IF blocks = <<>>
                   THEN UNCHANGED <<chunks, combinedPaths>>
                   ELSE \E ioError \in BOOLEAN :
                          /\ chunks' = IF ioError THEN chunks
                                        ELSE Put(chunks, file, [folder |-> folderName, key |-> key, blocks |-> blocks])
                          /\ combinedPaths' = WrittenPaths(combinedPaths, file, ioError)
    /\ UNCHANGED <<tokenVars, rq, page, srvLastPage, pageLog, allItems, detailsCache,
                   cleanedTextCache, groups, groupOrder, groupTitles, uploads,
                   tempCleared, sinkCleared, fetches, skipLog, runError>>
    /\ UNCHANGED notTeamlyVars

\* One iteration of the loop over txt_targets: conversion to DOCX and upload;
\* any exception is caught and logged.
UploadChunk ==
    /\ pc = "upload"
    /\ IF idx > Len(combinedPaths)
       THEN /\ pc' = "done"
            /\ UNCHANGED <<idx, uploads>>
       ELSE /\ idx' = idx + 1
            /\ pc' = pc
            /\ \E converted \in BOOLEAN :
                 uploads' = IF converted THEN Append(uploads, combinedPaths[idx]) ELSE uploads
    /\ UNCHANGED <<tokenVars, rq, page, srvLastPage, pageLog, allItems, detailsCache,
                   cleanedTextCache, groups, groupOrder, groupTitles, chunks,
                   combinedPaths, tempCleared, sinkCleared, fetches, skipLog, runError>>
    /\ UNCHANGED notTeamlyVars

NextTeamly ==
    \/ RunStart
    \/ ListArticlesPage
    \/ Send1
    \/ RefreshToken
    \/ Send2
    \/ ListPageReturn
    \/ FetchDetails
    \/ DetailsReturn
    \/ GroupTitleReturn
    \/ CombineGroup
    \/ UploadChunk

(***************************************************************************)
(* The Mattermost database and the helpers of MattermostProcessor.run      *)
(***************************************************************************)
\* The channels returned by get_channels_by_ids(MATTERMOST_CHANNEL_IDS), in the
\* order of channel_map, and Channel.Type of each.
Channels == <<"c1", "c2">>
ChannelType(c) == IF c = "c1" THEN "O" ELSE "D"

\* The Users table: Id -> Username
KnownUsers == {"u1", "u2"}
Username(u) == IF u = "u1" THEN "alice" ELSE "bob"

\* A lookup that gives the bare id of a user who is not found.
UserLabelBareId(u) == IF u \in KnownUsers THEN Username(u) ELSE u

\* user_map.get(post.UserId, f"user_{post.UserId}")
UserLabel(u) == IF u \in KnownUsers THEN Username(u) ELSE "user_" \o u

\* clean_text on the messages of the model: "mention" stands for a message
\* made of an @handle only, which is cleaned to the empty string.
CleanMessage(m) == IF m = "mention" THEN "" ELSE m

\* datetime values: a day number and the milliseconds within the day.
EpochMsToMoscowDt(ms) == [day |-> ms \div DayMs, off |-> ms % DayMs]
\* A conversion that keeps the date and drops the time of day.
DtToEpochMsDateOnly(dt) == dt.day * DayMs

\* int(dt.astimezone(utc).timestamp() * 1000)
DtToEpochMs(dt) == dt.day * DayMs + dt.off
\* dt + datetime.timedelta(days=n)
AddDays(dt, n) == [dt EXCEPT !.day = @ + n]
\* dt1 < dt2
DtLess(a, b) == a.day < b.day \/ (a.day = b.day /\ a.off < b.off)

\* dt1 <= dt2
DtLeq(a, b) == a.day < b.day \/ (a.day = b.day /\ a.off <= b.off)

RECURSIVE InsertSortedUnstable(_, _)
\* A sort that puts x before the elements whose CreateAt equals its own.
InsertSortedUnstable(s, x) ==
    IF s = <<>> THEN <<x>>
    ELSE IF Head(s).CreateAt < x.CreateAt
         THEN <<Head(s)>> \o InsertSortedUnstable(Tail(s), x)
         ELSE <<x>> \o s

RECURSIVE InsertSorted(_, _)
\* x put into the sorted s behind every element whose CreateAt is <= its own
InsertSorted(s, x) ==
    IF s = <<>> THEN <<x>>
    ELSE IF Head(s).CreateAt <= x.CreateAt THEN <<Head(s)>> \o InsertSorted(Tail(s), x)
         ELSE <<x>> \o s

RECURSIVE SortByCreateAt(_)
\* list.sort(key=lambda p: p.CreateAt) and ORDER BY CreateAt: a stable sort
SortByCreateAt(s) ==
    IF s = <<>> THEN <<>>
    ELSE InsertSorted(SortByCreateAt(SubSeq(s, 1, Len(s) - 1)), s[Len(s)])

\* PostRepository.get_posts_date_range: max(CreateAt), None (0) without posts
MaxCreateAt ==
    IF mmPosts = <<>> THEN 0
    ELSE CHOOSE t \in {mmPosts[i].CreateAt : i \in 1..Len(mmPosts)} :
            \A i \in 1..Len(mmPosts) : mmPosts[i].CreateAt <= t

\* A range query that is closed at both ends.
GetRootPostsInClosedRange(startTs, endTs, channel) ==
    SortByCreateAt(SelectSeq(mmPosts, LAMBDA p :
        /\ p.CreateAt >= startTs
        /\ p.CreateAt <= endTs
        /\ p.RootId = ""
        /\ p.ChannelId = channel
        /\ ChannelType(p.ChannelId) \in {"O", "P"}))

\* A range query without the test of the channel type.
GetRootPostsOfAnyType(startTs, endTs, channel) ==
    SortByCreateAt(SelectSeq(mmPosts, LAMBDA p :
        /\ p.CreateAt >= startTs
        /\ p.CreateAt < endTs
        /\ p.RootId = ""
        /\ p.ChannelId = channel))

\* PostRepository.get_root_posts_in_date_range
GetRootPostsInDateRange(startTs, endTs, channel) ==
    SortByCreateAt(SelectSeq(mmPosts, LAMBDA p :
        /\ p.CreateAt >= startTs
        /\ p.CreateAt < endTs
        /\ p.RootId = ""
        /\ p.ChannelId = channel
        /\ ChannelType(p.ChannelId) \in {"O", "P"}))

\* A query that returns the posts of the given ids only.
GetPostsByIds(ids) ==
    IF ids = {} THEN <<>>
    ELSE SortByCreateAt(SelectSeq(mmPosts, LAMBDA p : p.Id \in ids))

\* PostRepository.get_posts_by_ids_or_root_ids
GetPostsByIdsOrRootIds(ids) ==
    IF ids = {} THEN <<>>
    ELSE SortByCreateAt(SelectSeq(mmPosts, LAMBDA p : p.Id \in ids \/ p.RootId \in ids))

RECURSIVE BucketRepliesOnly(_, _)
\* A bucketing loop without the branch that inserts the root.
BucketRepliesOnly(related, threads) ==
    IF related = <<>> THEN threads
    ELSE LET post == Head(related)
         IN  BucketRepliesOnly(Tail(related),
                    IF post.RootId # "" /\ post.RootId \in DOMAIN threads
                    THEN [threads EXCEPT ![post.RootId] = Append(@, post)]
                    ELSE threads)

RECURSIVE Bucket(_, _)
\* The bucketing loop over all_relevant_posts: a reply is appended to the
\* bucket of its RootId, a root is inserted at position 0 of its own bucket.
Bucket(related, threads) ==
    IF related = <<>> THEN threads
    ELSE LET post == Head(related)
         IN  Bucket(Tail(related),
                    IF post.RootId # "" /\ post.RootId \in DOMAIN threads
                    THEN [threads EXCEPT ![post.RootId] = Append(@, post)]
                    ELSE IF post.Id \in DOMAIN threads
                    THEN [threads EXCEPT ![post.Id] = <<post>> \o @]
                    ELSE threads)

RECURSIVE ThreadLinesKeepEmpty(_, _)
\* Lines built without the test of the cleaned message.
ThreadLinesKeepEmpty(posts, rootId) ==
    IF posts = <<>> THEN <<>>
    ELSE LET post == Head(posts)
         IN  (IF post.Message # ""
              THEN <<[post |-> post.Id, root |-> rootId, ts |-> post.CreateAt,
                      user |-> UserLabel(post.UserId),
                      message |-> CleanMessage(post.Message)]>>
              ELSE <<>>)
             \o ThreadLinesKeepEmpty(Tail(posts), rootId)

RECURSIVE ThreadLines(_, _)
\* The lines of one thread: a post with an empty message, or with a message
\* that is empty after cleaning, gives no line.
ThreadLines(posts, rootId) ==
    IF posts = <<>> THEN <<>>
    ELSE LET post == Head(posts)
         IN  (IF post.Message # "" /\ CleanMessage(post.Message) # ""
              THEN <<[post |-> post.Id, root |-> rootId, ts |-> post.CreateAt,
                      user |-> UserLabel(post.UserId),
                      message |-> CleanMessage(post.Message)]>>
              ELSE <<>>)
             \o ThreadLines(Tail(posts), rootId)

\* thread_posts_list.sort(key=lambda p: p.CreateAt): the whole bucket is
\* sorted, the root included.
SortedThread(bucket) == SortByCreateAt(bucket)

RECURSIVE ChunkContent(_, _, _)
\* The loop over root_posts_in_period: chunk_content
ChunkContent(roots, threads, processed) ==
    IF roots = <<>> THEN <<>>
    ELSE LET root == Head(roots)
         IN  IF root.Id \in processed
             THEN ChunkContent(Tail(roots), threads, processed)
             ELSE ThreadLines(SortedThread(threads[root.Id]), root.Id)
                  \o ChunkContent(Tail(roots), threads, processed \cup {root.Id})

\* period_start_ts and period_end_ts of the window that starts at dt
Window(dt) == [start |-> DtToEpochMs(dt), end |-> DtToEpochMs(AddDays(dt, ChunkDays))]

\* root_post_ids
RootIds(roots) == {roots[i].Id : i \in 1..Len(roots)}

\* threads after the bucketing loop of one (channel, window) pair
PairThreads(roots) ==
    Bucket(GetPostsByIdsOrRootIds(RootIds(roots)), [r \in RootIds(roots) |-> <<>>])

\* chunk_content of one (channel, window) pair
PairContent(startTs, endTs, channel) ==
    LET roots == GetRootPostsInDateRange(startTs, endTs, channel)
        rootIds == {roots[i].Id : i \in 1..Len(roots)}
        related == GetPostsByIdsOrRootIds(rootIds)
        threads == Bucket(related, [r \in rootIds |-> <<>>])
    IN  ChunkContent(roots, threads, {})

(***************************************************************************)
(* MattermostProcessor.run                                                 *)
(***************************************************************************)
PostIds == <<"p1", "p2", "p3">>

\* The rows the Posts table may hold: p1 is a root of channel c1, p2 and p3
\* are roots or replies to p1.
PostRows(i) ==
    [Id : {PostIds[i]},
     CreateAt : 1..MaxTs,
     RootId : IF i = 1 THEN {""} ELSE {"", "p1"},
     ChannelId : IF i = 3 THEN {"c1", "c2"} ELSE {"c1"},
     UserId : {IF i = 1 THEN "u1" ELSE IF i = 2 THEN "u2" ELSE "u9"},
     Message : IF i = 1 THEN {"hello", "mention"}
               ELSE IF i = 2 THEN {"world", ""} ELSE {"more"}]

InitMM ==
    /\ mmEnv \in [service : BOOLEAN, folderId : BOOLEAN]
    /\ mmPosts \in {<<a, b, c>> : a \in PostRows(1), b \in PostRows(2), c \in PostRows(3)}
    /\ mmStartTs \in 1..2
    /\ mmPc = "start"
    /\ currentDate = EpochMsToMoscowDt(0)
    /\ chanIdx = 1
    /\ mmChunks = <<>>
    /\ mmUploads = <<>>
    /\ mmSinkCleared = FALSE
    /\ mmWindows = <<>>
    /\ mmPairs = <<>>

\* if not gdrive_service: return, and if not gdrive_folder_id: return
MMAborts(env) == ~env.service \/ ~env.folderId

\* run up to the window loop: Drive service and folder id, clearing of the
\* sink folder, the channels and the date range.
MMStart ==
    /\ mmPc = "start"
    /\ IF MMAborts(mmEnv)
       THEN /\ mmPc' = "done"
            /\ UNCHANGED <<mmSinkCleared, currentDate, mmWindows>>
       ELSE /\ mmSinkCleared' = TRUE
            /\ IF MaxCreateAt = 0
               THEN mmPc' = "done" /\ UNCHANGED <<currentDate, mmWindows>>
               ELSE /\ currentDate' = EpochMsToMoscowDt(mmStartTs)
                    /\ IF DtLeq(EpochMsToMoscowDt(mmStartTs), EpochMsToMoscowDt(MaxCreateAt))
                       THEN /\ mmPc' = "window"
                            /\ mmWindows' = <<Window(EpochMsToMoscowDt(mmStartTs))>>
                       ELSE /\ mmPc' = "done"
                            /\ UNCHANGED mmWindows
    /\ UNCHANGED <<mmEnv, mmPosts, mmStartTs, chanIdx, mmChunks, mmUploads, mmPairs>>
    /\ UNCHANGED notMMVars

\* One iteration of the loop over channel_map inside the window loop: the
\* threads of the (channel, window) pair are rebuilt and flattened, and the
\* chunk file is written and handed to upload_file_to_gdrive when there is
\* content; an IOError of the write is logged, and an upload that fails is
\* logged inside upload_file_to_gdrive (stored = FALSE).
MMProcessPair ==
    /\ mmPc = "window"
    /\ chanIdx <= Len(Channels)
    /\ LET startTs == Window(currentDate).start
           endTs == Window(currentDate).end
           channel == Channels[chanIdx]
           roots == GetRootPostsInDateRange(startTs, endTs, channel)
           threads == PairThreads(roots)
           content == PairContent(startTs, endTs, channel)
           chunk == [channel |-> channel, start |-> startTs, end |-> endTs,
                     lines |-> content]
           pair == [channel |-> channel, start |-> startTs, end |-> endTs,
                    roots |-> roots,
                    related |-> GetPostsByIdsOrRootIds(RootIds(roots)),
                    threads |-> threads,
                    processed |-> [r \in DOMAIN threads |-> SortedThread(threads[r])],
                    outcome |-> ""]
       IN  IF content = <<>>
           THEN /\ mmPairs' = Append(mmPairs, [pair EXCEPT !.outcome = "none"])
                /\ UNCHANGED <<mmChunks, mmUploads>>
           ELSE \E ioError \in BOOLEAN :
                  IF ioError
                  THEN /\ mmPairs' = Append(mmPairs, [pair EXCEPT !.outcome = "io_error"])
                       /\ UNCHANGED <<mmChunks, mmUploads>>
                  ELSE /\ mmPairs' = Append(mmPairs, [pair EXCEPT !.outcome = "written"])
                       /\ mmChunks' = Append(mmChunks, chunk)
                       /\ \E stored \in BOOLEAN :
                            mmUploads' = Append(mmUploads,
                                [channel |-> channel, start |-> startTs, end |-> endTs,
                                 lines |-> content, stored |-> stored])
    /\ chanIdx' = chanIdx + 1
    /\ UNCHANGED <<mmEnv, mmPosts, mmStartTs, mmPc, currentDate, mmSinkCleared, mmWindows>>
    /\ UNCHANGED notMMVars

\* The end of one iteration of the window loop: current_date advances by
\* PROCESSING_CHUNK_DAYS and the loop condition is tested.
MMNextWindow ==
    /\ mmPc = "window"
    /\ chanIdx > Len(Channels)
    /\ currentDate' = AddDays(currentDate, ChunkDays)
    /\ chanIdx' = 1
    /\ IF DtLeq(AddDays(currentDate, ChunkDays), EpochMsToMoscowDt(MaxCreateAt))
       THEN /\ mmPc' = "window"
            /\ mmWindows' = Append(mmWindows, Window(AddDays(currentDate, ChunkDays)))
       ELSE /\ mmPc' = "done"
            /\ UNCHANGED mmWindows
    /\ UNCHANGED <<mmEnv, mmPosts, mmStartTs, mmChunks, mmUploads, mmSinkCleared, mmPairs>>
    /\ UNCHANGED notMMVars

NextMM ==
    \/ MMStart
    \/ MMProcessPair
    \/ MMNextWindow

(***************************************************************************)
(* clean_text of the Mattermost processor and of the Teamly processor      *)
(***************************************************************************)
\* A text is a sequence of characters of four kinds: "@", a character "b" of
\* the class [a-zA-Z0-9_.], an emoji "E" of the ranges removed by both
\* functions, and a blank " ".  None of them is Markdown or HTML markup.
Chars == {"@", "b", "E", " "}

\* None
Null == <<"None">>

RECURSIVE TextsOfLen(_)
TextsOfLen(n) ==
    IF n = 0 THEN {<<>>}
    ELSE {Append(t, c) : t \in TextsOfLen(n - 1), c \in Chars}

Texts == UNION {TextsOfLen(n) : n \in 0..MaxTextLen} \cup {Null}

RECURSIVE LStrip(_)
\* Leading blanks removed.
LStrip(t) == IF t # <<>> /\ Head(t) = " " THEN LStrip(Tail(t)) ELSE t

RECURSIVE RStrip(_)
\* Trailing blanks removed.
RStrip(t) ==
    IF t # <<>> /\ t[Len(t)] = " " THEN RStrip(SubSeq(t, 1, Len(t) - 1)) ELSE t

\* str.strip()
StripText(t) == RStrip(LStrip(t))

\* markdown.markdown(text) and BeautifulSoup(html).get_text(separator=" ") on a
\* text without markup: the text of the one paragraph, without the blanks
\* around it.
MarkdownPlainText(t) == StripText(t)

RECURSIVE DropHandle(_)
\* The rest of a text after the longest run of [a-zA-Z0-9_.] at its start.
DropHandle(t) == IF t # <<>> /\ Head(t) = "b" THEN DropHandle(Tail(t)) ELSE t

RECURSIVE RemoveMentions(_)
\* re.sub(r"@[a-zA-Z0-9_.]+", "", text)
RemoveMentions(t) ==
    IF t = <<>> THEN <<>>
    ELSE IF Head(t) = "@" /\ Len(t) >= 2 /\ t[2] = "b"
         THEN RemoveMentions(DropHandle(Tail(t)))
         ELSE <<Head(t)>> \o RemoveMentions(Tail(t))

\* re.sub of the emoji ranges by ""
RemoveEmoji(t) == FilterSeq(t, {"E"})

RECURSIVE CollapseBlanks(_)
\* re.sub(r"\s+", " ", text)
CollapseBlanks(t) ==
    IF t = <<>> THEN <<>>
    ELSE IF Head(t) = " "
         THEN <<" ">> \o CollapseBlanks(LStrip(t))
         ELSE <<Head(t)>> \o CollapseBlanks(Tail(t))

\* mattermost.clean_text
CleanText(t) ==
    IF t = Null \/ t = <<>> THEN <<>>
    ELSE StripText(CollapseBlanks(RemoveEmoji(RemoveMentions(MarkdownPlainText(t)))))

\* teamly.clean_text
TeamlyCleanText(t) ==
    IF t = Null \/ t = <<>> THEN <<>>
    ELSE StripText(CollapseBlanks(RemoveEmoji(t)))

\* clean_text of the named processor
ApplyCleanText(fn, t) == IF fn = "mattermost" THEN CleanText(t) ELSE TeamlyCleanText(t)

InitText ==
    \E fn \in {"mattermost", "teamly"}, t \in Texts :
        sample = [pc |-> "text", fn |-> fn, text |-> t, once |-> <<>>, twice |-> <<>>]

\* clean_text(s)
CleanOnce ==
    /\ sample.pc = "text"
    /\ sample' = [sample EXCEPT !.pc = "once", !.once = ApplyCleanText(sample.fn, sample.text)]
    /\ UNCHANGED notTextVars

\* clean_text(clean_text(s))
CleanTwice ==
    /\ sample.pc = "once"
    /\ sample' = [sample EXCEPT !.pc = "twice", !.twice = ApplyCleanText(sample.fn, sample.once)]
    /\ UNCHANGED notTextVars

NextText ==
    \/ CleanOnce
    \/ CleanTwice

(***************************************************************************)
(* gdrive_utils: delete_files_in_folder and upload_file_to_gdrive, as a    *)
(* processor run calls them: the sink folder is cleared, then the chunk    *)
(* files of the run are uploaded one by one.                               *)
(***************************************************************************)
\* The chunk files a run of the processor produces from its inputs.
ChunkNames == <<"k1", "k2">>

\* A file left in the folder by someone else.
OldFile == [name |-> "old", run |-> "before"]

\* max_attempts and the first delay of upload_file_to_gdrive
MaxAttempts == 3
InitialDelay == 2

\* What a call of the Drive API does: it returns, raises HttpError with a
\* status, or raises another exception.
ApiOk == [exc |-> "none", status |-> 200]
ApiHttpError(st) == [exc |-> "HttpError", status |-> st]
ApiTimeout == [exc |-> "TimeoutError", status |-> 0]
ItemCallOutcomes == {ApiOk, ApiHttpError(403), ApiTimeout}
CreateOutcomes == {ApiOk, ApiHttpError(413), ApiHttpError(500), ApiHttpError(403), ApiTimeout}

\* The except clauses around the trash call and around the delete call of one
\* item, and those around the whole of delete_files_in_folder and around the
\* create call of upload_file_to_gdrive.
\* A loop body without except clauses of its own.
ItemExceptNone == <<>>

ItemExceptClauses == <<"HttpError">>
OuterExceptClauses == <<"HttpError", "Exception">>

\* No item handled yet.
NoItem == [file |-> [name |-> "", run |-> ""], canTrash |-> FALSE, canDelete |-> FALSE,
           calls |-> <<>>, failed |-> <<>>, outcome |-> "", escapes |-> "none"]

\* A files().list that returns no file.
ListFilesNone(folder) == {}

\* files().list(q="'<folder>' in parents and trashed=false")
ListFiles(folder) == folder

\* One iteration of the loop over items: the calls made, the exceptions they
\* raised, what was logged for the item, and the exception that leaves the
\* loop body, if any.
ClearItem(f, canTrash, canDelete, trashOut, deleteOut) ==
    LET base == [NoItem EXCEPT !.file = f, !.canTrash = canTrash, !.canDelete = canDelete]
        trashCaught == FirstHandler(trashOut.exc, ItemExceptClauses) # 0
        deleteCaught == FirstHandler(deleteOut.exc, ItemExceptClauses) # 0
        afterTrash == IF canTrash THEN <<"trash">> ELSE <<>>
        trashFailed == IF canTrash THEN <<trashOut.exc>> ELSE <<>>
    IN  IF canTrash /\ trashOut.exc = "none"
        THEN [base EXCEPT !.calls = <<"trash">>, !.outcome = "trashed"]
        ELSE IF canTrash /\ ~trashCaught
        THEN [base EXCEPT !.calls = <<"trash">>, !.failed = trashFailed,
                          !.escapes = trashOut.exc]
        ELSE IF canDelete
        THEN IF deleteOut.exc = "none"
             THEN [base EXCEPT !.calls = afterTrash \o <<"delete">>, !.failed = trashFailed,
                               !.outcome = "deleted"]
             ELSE IF deleteCaught
             THEN [base EXCEPT !.calls = afterTrash \o <<"delete">>,
                               !.failed = trashFailed \o <<deleteOut.exc>>,
                               !.outcome = "delete_failed"]
             ELSE [base EXCEPT !.calls = afterTrash \o <<"delete">>,
                               !.failed = trashFailed \o <<deleteOut.exc>>,
                               !.escapes = deleteOut.exc]
        ELSE [base EXCEPT !.calls = afterTrash, !.failed = trashFailed,
                          !.outcome = "no_permission"]

\* The outer except clauses of delete_files_in_folder for exception e: what is
\* logged, or "raised" when no clause matches.
ClearEndFor(e) ==
    LET h == FirstHandler(e, OuterExceptClauses)
    IN  IF h = 0 THEN "raised"
        ELSE IF OuterExceptClauses[h] = "HttpError" THEN "list_error" ELSE "unexpected"

\* The locals of upload_file_to_gdrive before the loop.
UploadStart(asGdoc) ==
    [asGdoc |-> asGdoc, attempt |-> 1, delay |-> InitialDelay,
     triedBinaryFallback |-> FALSE, creates |-> <<>>, outs |-> <<>>, slept |-> <<>>,
     result |-> "running"]

NoUpload == [UploadStart(FALSE) EXCEPT !.result = "none"]

\* A fallback that is also taken by an upload that is not an import.
FallbackAlsoBinary(status, asGdoc, tried) == status = 413 /\ ~tried

\* if status and int(status) == 413 and as_gdoc and not tried_binary_fallback
FallbackApplies(status, asGdoc, tried) == status = 413 /\ asGdoc /\ ~tried

\* A retry test that allows one attempt more.
RetryableOneMore(status, attempt) == status >= 500 /\ status < 600 /\ attempt <= MaxAttempts

\* if status and 500 <= int(status) < 600 and attempt < max_attempts
Retryable(status, attempt) == status >= 500 /\ status < 600 /\ attempt < MaxAttempts

\* A delay that stays the same.
NextDelaySame(delay) == delay

\* delay *= 2
NextDelay(delay) == delay * 2

\* One iteration of the loop of upload_file_to_gdrive: the create call with
\* outcome out, and the except clauses.
UploadStep(u, out) ==
    LET called == [u EXCEPT !.creates = Append(@, IF u.asGdoc THEN "gdoc" ELSE "binary"),
                            !.outs = Append(@, out)]
        h == FirstHandler(out.exc, OuterExceptClauses)
    IN  IF out.exc = "none" THEN [called EXCEPT !.result = "stored"]
        ELSE IF h = 0 THEN [called EXCEPT !.result = "raised"]
        ELSE IF OuterExceptClauses[h] = "Exception" THEN [called EXCEPT !.result = "unexpected"]
        ELSE IF FallbackApplies(out.status, u.asGdoc, u.triedBinaryFallback)
        THEN [called EXCEPT !.asGdoc = FALSE, !.triedBinaryFallback = TRUE]
        ELSE IF Retryable(out.status, u.attempt)
        THEN [called EXCEPT !.slept = Append(@, u.delay), !.attempt = @ + 1,
                            !.delay = NextDelay(@)]
        ELSE [called EXCEPT !.result = "error"]

InitDrive ==
    /\ sink \in {{}, {OldFile}}
    /\ dRun = "first"
    /\ dPc = "clear"
    /\ dPending = {}
    /\ dLast = NoItem
    /\ dClearEnd = ""
    /\ dKept = {}
    /\ dRaised = FALSE
    /\ dChunk = 1
    /\ up = NoUpload
    /\ dSnap = {}

\* delete_files_in_folder up to the loop: the listing; an exception of the
\* listing is logged by the outer except clauses, an empty listing returns.
DriveClearList ==
    /\ dPc = "clear"
    /\ \E out \in ItemCallOutcomes :
         IF out.exc # "none"
         THEN /\ dClearEnd' = ClearEndFor(out.exc)
              /\ dRaised' = (dRaised \/ ClearEndFor(out.exc) = "raised")
              /\ dKept' = sink
              /\ dPc' = "upload"
              /\ UNCHANGED dPending
         ELSE IF ListFiles(sink) = {}
         THEN /\ dClearEnd' = "empty"
              /\ dKept' = {}
              /\ dPc' = "upload"
              /\ UNCHANGED <<dPending, dRaised>>
         ELSE /\ dPending' = ListFiles(sink)
              /\ dPc' = "items"
              /\ UNCHANGED <<dClearEnd, dKept, dRaised>>
    /\ UNCHANGED <<sink, dRun, dLast, dChunk, up, dSnap>>
    /\ UNCHANGED notDriveVars

\* One iteration of the loop over items, and the end of the function when the
\* loop is over or an exception leaves it.
DriveClearItem ==
    /\ dPc = "items"
    /\ \E f \in dPending, canTrash \in BOOLEAN, canDelete \in BOOLEAN,
          trashOut \in ItemCallOutcomes, deleteOut \in ItemCallOutcomes :
         LET res == ClearItem(f, canTrash, canDelete, trashOut, deleteOut)
             removed == res.outcome \in {"trashed", "deleted"}
             rest == dPending \ {f}
         IN  /\ dLast' = res
             /\ sink' = IF removed THEN sink \ {f} ELSE sink
             /\ IF res.escapes # "none"
                THEN /\ dClearEnd' = ClearEndFor(res.escapes)
                     /\ dRaised' = (dRaised \/ ClearEndFor(res.escapes) = "raised")
                     /\ dKept' = dKept \cup dPending
                     /\ dPc' = "upload"
                     /\ UNCHANGED dPending
                ELSE /\ dPending' = rest
                     /\ dKept' = IF removed THEN dKept ELSE dKept \cup {f}
                     /\ dClearEnd' = IF rest = {} THEN "loop" ELSE dClearEnd
                     /\ dPc' = IF rest = {} THEN "upload" ELSE "items"
                     /\ UNCHANGED dRaised
    /\ UNCHANGED <<dRun, dChunk, up, dSnap>>
    /\ UNCHANGED notDriveVars

\* The processor calls upload_file_to_gdrive for its next chunk file, or has
\* uploaded them all.
DriveUploadCall ==
    /\ dPc = "upload"
    /\ IF dChunk > Len(ChunkNames)
       THEN /\ dPc' = "ran"
            /\ UNCHANGED up
       ELSE /\ dPc' = "create"
            /\ \E asGdoc \in BOOLEAN : up' = UploadStart(asGdoc)
    /\ UNCHANGED <<sink, dRun, dPending, dLast, dClearEnd, dKept, dRaised, dChunk, dSnap>>
    /\ UNCHANGED notDriveVars

\* One iteration of the loop of upload_file_to_gdrive; when the function
\* returns the processor goes on with the next chunk.
DriveCreate ==
    /\ dPc = "create"
    /\ \E out \in CreateOutcomes :
         LET u == UploadStep(up, out)
         IN  /\ up' = u
             /\ sink' = IF u.result = "stored"
                        THEN sink \cup {[name |-> ChunkNames[dChunk], run |-> dRun]}
                        ELSE sink
             /\ dRaised' = (dRaised \/ u.result = "raised")
             /\ IF u.result = "running"
                THEN UNCHANGED <<dPc, dChunk>>
                ELSE dPc' = "upload" /\ dChunk' = dChunk + 1
    /\ UNCHANGED <<dRun, dPending, dLast, dClearEnd, dKept, dSnap>>
    /\ UNCHANGED notDriveVars

\* The processor is run again with the same inputs.
DriveRerun ==
    /\ dPc = "ran"
    /\ dRun = "first"
    /\ dRun' = "rerun"
    /\ dPc' = "clear"
    /\ dSnap' = {f.name : f \in sink}
    /\ dPending' = {}
    /\ dLast' = NoItem
    /\ dClearEnd' = ""
    /\ dKept' = {}
    /\ dChunk' = 1
    /\ up' = NoUpload
    /\ UNCHANGED <<sink, dRaised>>
    /\ UNCHANGED notDriveVars

NextDrive ==
    \/ DriveClearList
    \/ DriveClearItem
    \/ DriveUploadCall
    \/ DriveCreate
    \/ DriveRerun

(***************************************************************************)
(* main of src/cli.py and of main.py                                       *)
(***************************************************************************)
\* The names the help text of the CLI gives, in the order main tests them.
ProcessorNames == <<"mattermost", "teamly", "hr">>

\* The words that can be given on the command line.
ArgWords == SeqSet(ProcessorNames) \cup {"other"}

\* What a processor's entry function does: it returns, or an exception leaves it.
ProcessorOutcomes == {"none", "HTTPError"}

\* except Exception as e
MainExceptClauses == <<"Exception">>

\* The if blocks of the try block of cli.main, in order; the block of the
\* Mattermost processor is commented out.
CliBlocks == <<"teamly", "hr">>

\* The try block of main.py calls process_mattermost_posts only.
MainBlocks == <<"mattermost">>

Blocks(entry) == IF entry = "cli" THEN CliBlocks ELSE MainBlocks

\* processors_to_run = args.processors if args.processors else [all three]
ProcessorsToRun(args) == IF args # {} THEN args ELSE SeqSet(ProcessorNames)

InitCli ==
    /\ \/ cEntry = "cli" /\ cArgs \in SUBSET ArgWords
       \/ cEntry = "main" /\ cArgs = {}
    /\ cToRun = {}
    /\ cPc = "parse"
    /\ cStarted = <<>>
    /\ cFailed = ""
    /\ cCaught = 0
    /\ cPropagated = FALSE
    /\ cGen = "none"
    /\ cCloses = 0

\* main up to the try statement: the arguments, initialize(), the flags and
\* db_session = next(get_db()), which leaves the generator suspended at its
\* yield with no reference to it.  main.py takes no arguments.
CliStart ==
    /\ cPc = "parse"
    /\ cToRun' = IF cEntry = "cli" THEN ProcessorsToRun(cArgs) ELSE SeqSet(MainBlocks)
    /\ cGen' = "suspended"
    /\ cPc' = "block1"
    /\ UNCHANGED <<cEntry, cArgs, cStarted, cFailed, cCaught, cPropagated, cCloses>>
    /\ UNCHANGED notCliVars

\* The number of the block main is at, 0 outside the try block.
BlockNo == IF cPc = "block1" THEN 1 ELSE IF cPc = "block2" THEN 2 ELSE 0

\* The position after block n of the try block.
AfterBlock(n) ==
    IF n + 1 > Len(Blocks(cEntry)) THEN "finally" ELSE "block2"

\* One if block of the try block: the processor is started when its flag is
\* set; an exception that leaves it ends the try block.
CliBlock ==
    /\ BlockNo >= 1
    /\ LET name == Blocks(cEntry)[BlockNo]
       IN  IF name \in cToRun
           THEN /\ cStarted' = Append(cStarted, name)
                /\ \E e \in ProcessorOutcomes :
                     IF e = "none"
                     THEN cPc' = AfterBlock(BlockNo) /\ UNCHANGED cFailed
                     ELSE cPc' = "raised" /\ cFailed' = name
           ELSE /\ cPc' = AfterBlock(BlockNo)
                /\ UNCHANGED <<cStarted, cFailed>>
    /\ UNCHANGED <<cEntry, cArgs, cToRun, cCaught, cPropagated, cGen, cCloses>>
    /\ UNCHANGED notCliVars

\* The except clause of main: logger.critical; an exception no clause matches
\* goes on through the finally block and leaves main.
CliExcept ==
    /\ cPc = "raised"
    /\ IF FirstHandler("HTTPError", MainExceptClauses) # 0
       THEN cCaught' = cCaught + 1 /\ UNCHANGED cPropagated
       ELSE cPropagated' = TRUE /\ UNCHANGED cCaught
    /\ cPc' = "finally"
    /\ UNCHANGED <<cEntry, cArgs, cToRun, cStarted, cFailed, cGen, cCloses>>
    /\ UNCHANGED notCliVars

\* finally: db_session.close()
CliFinally ==
    /\ cPc = "finally"
    /\ cCloses' = cCloses + 1
    /\ cPc' = "end"
    /\ UNCHANGED <<cEntry, cArgs, cToRun, cStarted, cFailed, cCaught, cPropagated, cGen>>
    /\ UNCHANGED notCliVars

\* The generator of get_db() is finalized: GeneratorExit is raised at its
\* yield and its finally block calls db.close().  When this happens is up to
\* the interpreter: at once when the last reference goes, or at a later
\* collection.
GeneratorFinalized ==
    /\ cGen = "suspended"
    /\ cGen' = "closed"
    /\ cCloses' = cCloses + 1
    /\ UNCHANGED <<cEntry, cArgs, cToRun, cPc, cStarted, cFailed, cCaught, cPropagated>>
    /\ UNCHANGED notCliVars

NextCli ==
    \/ CliStart
    \/ CliBlock
    \/ CliExcept
    \/ CliFinally
    \/ GeneratorFinalized

(***************************************************************************)
(* Specifications                                                          *)
(***************************************************************************)
\* The Mattermost processor does not run.
MMOff ==
    /\ mmEnv = [service |-> FALSE, folderId |-> FALSE]
    /\ mmPosts = <<>>
    /\ mmStartTs = 1
    /\ mmPc = "off"
    /\ currentDate = EpochMsToMoscowDt(0)
    /\ chanIdx = 1
    /\ mmChunks = <<>>
    /\ mmUploads = <<>>
    /\ mmSinkCleared = FALSE
    /\ mmWindows = <<>>
    /\ mmPairs = <<>>

\* The Teamly processor does not run.
TeamlyOff ==
    /\ fileAccess = EmptyStr
    /\ fileRefresh = EmptyStr
    /\ accessToken = NoneTok
    /\ refreshToken = NoneTok
    /\ staleFiles = {}
    /\ issued = 0
    /\ rq = IdleRq
    /\ pc = "off"
    /\ page = 1
    /\ srvLastPage = 1
    /\ pageLog = <<>>
    /\ allItems = <<>>
    /\ idx = 1
    /\ detailsCache = [k \in {} |-> NoData]
    /\ cleanedTextCache = [k \in {} |-> ""]
    /\ groups = [k \in {} |-> <<>>]
    /\ groupOrder = <<>>
    /\ groupTitles = [k \in {} |-> ""]
    /\ chunks = [k \in {} |-> <<>>]
    /\ combinedPaths = <<>>
    /\ uploads = <<>>
    /\ tempCleared = FALSE
    /\ sinkCleared = FALSE
    /\ fetches = <<>>
    /\ skipLog = <<>>
    /\ runError = "none"

\* clean_text is not applied to a sample.
TextOff == sample = [pc |-> "off", fn |-> "", text |-> <<>>, once |-> <<>>, twice |-> <<>>]

\* The sink folder is not used.
DriveOff ==
    /\ sink = {}
    /\ dRun = "first"
    /\ dPc = "off"
    /\ dPending = {}
    /\ dLast = NoItem
    /\ dClearEnd = ""
    /\ dKept = {}
    /\ dRaised = FALSE
    /\ dChunk = 1
    /\ up = NoUpload
    /\ dSnap = {}

\* main is not running.
CliOff ==
    /\ cEntry = ""
    /\ cArgs = {}
    /\ cToRun = {}
    /\ cPc = "off"
    /\ cStarted = <<>>
    /\ cFailed = ""
    /\ cCaught = 0
    /\ cPropagated = FALSE
    /\ cGen = "none"
    /\ cCloses = 0

\* A run of the Teamly processor.
Init == InitTeamly /\ MMOff /\ TextOff /\ DriveOff /\ CliOff
Next == NextTeamly
Spec == Init /\ [][Next]_vars

\* A run of the Mattermost processor.
InitRunMM == InitMM /\ TeamlyOff /\ TextOff /\ DriveOff /\ CliOff
SpecMM == InitRunMM /\ [][NextMM]_vars

\* A run of one of the two processors.
InitProcessor == Init \/ InitRunMM
NextProcessor == NextTeamly \/ NextMM
SpecProcessor == InitProcessor /\ [][NextProcessor]_vars

\* The text normalizers applied to a text and to their own result.
InitRunText == InitText /\ TeamlyOff /\ MMOff /\ DriveOff /\ CliOff
SpecText == InitRunText /\ [][NextText]_vars

\* Two runs of a processor against the sink folder.
InitRunDrive == InitDrive /\ TeamlyOff /\ MMOff /\ TextOff /\ CliOff
SpecDrive == InitRunDrive /\ [][NextDrive]_vars

\* The same, with the loop of upload_file_to_gdrive going on: a create call
\* returns or raises, and time.sleep returns.
SpecDriveLive == SpecDrive /\ WF_vars(DriveCreate)

\* main, with the processors taken as calls that return or raise.
InitRunCli == InitCli /\ TeamlyOff /\ MMOff /\ TextOff /\ DriveOff
SpecCli == InitRunCli /\ [][NextCli]_vars

(***************************************************************************)
(* Claims about the Teamly client (Spec)                                   *)
(***************************************************************************)
TokenPair == <<accessToken, refreshToken>>
Persisted == <<fileAccess, fileRefresh>>

\* What a restart would read back from a token file holding t.
Norm(t) == ReadTokenFromFile(t)

\* C1: in every _request call the original request is issued at most twice
\* and refresh_token is called at most once; a first 401/403 triggers exactly
\* one refresh call; a retried request that is again 401/403 is the response
\* returned, with no second refresh and no third request.
C1_SingleRefreshAndRetry ==
    /\ rq.sent <= 2
    /\ rq.refreshCalls <= 1
    /\ rq.sent = 2 => rq.pc = "done" /\ rq.refreshCalls = 1
    /\ rq.pc = "done" /\ rq.first.exc = "none" /\ rq.first.status \in {401, 403}
          => rq.refreshCalls = 1
    /\ rq.pc = "done" /\ rq.first.exc = "none" /\ rq.first.status \notin {401, 403}
          => rq.refreshCalls = 0 /\ rq.sent = 1

\* Witness of C1: a call whose retried request was answered 401 again has returned.
C1_Witness ==
    /\ rq.pc = "done"
    /\ rq.sent = 2
    /\ rq.first.status = 401
    /\ rq.resp = Resp(401)

\* C2: when the first response is 401/403 and the refresh exchange fails (HTTP
\* error status, or no access token in the response), _request returns the
\* original unauthorized response, issues no retried request and leaves the
\* in-memory token pair unchanged.
C2_RefreshFailureReturnsOriginal ==
    rq.refreshResult \in {"http_error", "no_access"} =>
        /\ rq.pc = "done"
        /\ rq.first.exc = "none" /\ rq.first.status \in {401, 403}
        /\ rq.resp = rq.first
        /\ rq.sent = 1
        /\ accessToken = rq.tok0[1]
        /\ refreshToken = rq.tok0[2]

\* Witness of C2: the refresh response carried a refresh token but no access
\* token, and the call has returned.
C2_Witness ==
    /\ rq.pc = "done"
    /\ rq.refreshResult = "no_access"
    /\ Truthy(rq.body.refresh)

C5_TokensChangeOnlyByRefresh ==
    /\ [][<<TokenPair, Persisted>>' # <<TokenPair, Persisted>> =>
             /\ rq.pc = "refresh"
             /\ rq.first.status \in {401, 403}
             /\ rq'.refreshResult = "ok"]_vars
    /\ [](rq.pc = "done" /\ rq.first.exc = "none" /\ rq.first.status \notin {401, 403} =>
             /\ rq.refreshCalls = 0
             /\ rq.sent = 1
             /\ <<accessToken, refreshToken, fileAccess, fileRefresh>> = rq.tok0)

\* Witness of C5: a detail request answered 404 has returned, in a run whose
\* tokens were refreshed before.
C5_Witness ==
    /\ rq.pc = "done"
    /\ rq.caller = "details"
    /\ rq.first = Resp(404)
    /\ issued = 1

SoftFailure(resp) ==
    \/ resp.exc \in {"SSLError", "ConnectionError"}
    \/ resp.exc = "none" /\ resp.status = 404

ContinuesWithNextItem ==
    /\ runError' = "none"
    /\ pc' \in {"details", "combine"}
    /\ pc' = "details" => idx' = idx + 1

\* C6: for an SSL error, a generic request failure or a 404 response,
\* get_article_details propagates no error and returns an empty result: nothing
\* is cached or grouped for the item and the run goes on with the next item.
C6_SoftFailuresReturnEmpty ==
    [][/\ rq.pc = "done" /\ rq.caller = "details" /\ SoftFailure(rq.resp) =>
             /\ ContinuesWithNextItem
             /\ UNCHANGED <<detailsCache, cleanedTextCache, groups, groupTitles>>
       /\ rq.pc = "done" /\ rq.caller = "grouptitle" /\ SoftFailure(rq.resp) =>
             /\ ContinuesWithNextItem
             /\ UNCHANGED <<detailsCache, groupTitles>>]_vars

\* Witness of C6: the detail request of an item has ended in an SSL error.
C6_Witness ==
    /\ rq.pc = "done"
    /\ rq.caller = "details"
    /\ rq.resp = Raised("SSLError")

\* C7: for an HTTP error status other than 404 (also a 401/403 that is left
\* after the refresh-and-retry) the error propagates out of
\* get_article_details, which aborts the run.
C7_OtherStatusesFatal ==
    [][rq.pc = "done" /\ rq.caller = "details" /\ rq.resp.exc = "none"
           /\ rq.resp.status \in {400, 401, 403, 500}
         => pc' = "aborted" /\ runError' = "HTTPError"]_vars

\* C8: a non-2xx status finally returned for a paging call makes
\* list_articles_page raise; the error leaves run, and no group is built, no
\* chunk written and nothing uploaded in that run.
C8_PagingErrorAbortsRun ==
    /\ [][pc = "list" /\ rq.pc = "done" /\ rq.resp.exc = "none"
             /\ rq.resp.status \notin 200..299
           => /\ pc' = "aborted"
              /\ runError' = "HTTPError"
              /\ DOMAIN groups' = {}
              /\ DOMAIN chunks' = {}
              /\ combinedPaths' = <<>>
              /\ uploads' = <<>>]_vars
    /\ [][pc = "aborted" => FALSE]_vars

\* Witness of C8: the run was aborted by the HTTP error of the second page.
C8_Witness ==
    /\ pc = "aborted"
    /\ runError = "HTTPError"
    /\ page = 2
    /\ allItems # <<>>

\* C9: an HTTP error status of the refresh endpoint is fatal: the run is
\* aborted by an error.
C9_RefreshErrorFatal ==
    [][rq.pc = "done" /\ rq.refreshResult = "http_error" => pc' = "aborted"]_vars

(***************************************************************************)
(* Claims about the Mattermost processor (SpecMM)                          *)
(***************************************************************************)
\* C10: in every emitted thread the root comes first and the replies follow
\* in ascending creation timestamp, also when a reply's timestamp is smaller
\* than the root's.
C10_RootFirstThenAscending ==
    \A i \in 1..Len(mmChunks) :
        LET lines == mmChunks[i].lines
        IN  \A j, k \in 1..Len(lines) :
                j < k /\ lines[j].root = lines[k].root =>
                    /\ lines[k].post # lines[k].root
                    /\ lines[j].post # lines[j].root => lines[j].ts <= lines[k].ts

\* Position of the post with the given id in a sequence of posts (0: absent)
PosOf(s, id) ==
    IF \E i \in 1..Len(s) : s[i].Id = id
    THEN CHOOSE i \in 1..Len(s) : s[i].Id = id
    ELSE 0

\* C11: the bucket of a thread holds the root at position 0 and then the
\* replies in arrival order; the posts of the thread are processed in
\* non-decreasing CreateAt order, and posts with equal CreateAt keep the
\* relative order they had in the bucket.
C11_SortedAndStable ==
    \A i \in 1..Len(mmPairs) :
        \A r \in DOMAIN mmPairs[i].threads :
            LET bucket == mmPairs[i].threads[r]
                done == mmPairs[i].processed[r]
            IN  /\ bucket = SelectSeq(mmPairs[i].related, LAMBDA p : p.Id = r)
                              \o SelectSeq(mmPairs[i].related, LAMBDA p : p.RootId = r)
                /\ Len(done) = Len(bucket)
                /\ \A j \in 1..Len(bucket) : PosOf(done, bucket[j].Id) # 0
                /\ \A j, k \in 1..Len(done) : j < k => done[j].CreateAt <= done[k].CreateAt
                /\ \A j, k \in 1..Len(bucket) :
                       j < k /\ bucket[j].CreateAt = bucket[k].CreateAt =>
                           PosOf(done, bucket[j].Id) < PosOf(done, bucket[k].Id)

\* A thread of three posts was processed in which one reply is older than the
\* root and the other has the CreateAt of the root.
C11_Witness ==
    \E i \in 1..Len(mmPairs) :
        \E r \in DOMAIN mmPairs[i].threads :
            LET bucket == mmPairs[i].threads[r]
            IN  /\ Len(bucket) = 3
                /\ bucket[2].CreateAt < bucket[1].CreateAt
                /\ bucket[3].CreateAt = bucket[1].CreateAt

\* C12: the windows tile the time axis: the first starts at global_start, each
\* has the length of chunk_days, and each later window starts where the window
\* before it ends; every chunk carries the bounds of one of these windows.
C12_WindowsTile ==
    /\ mmWindows # <<>> => mmWindows[1].start = mmStartTs
    /\ \A i \in 1..Len(mmWindows) : mmWindows[i].end - mmWindows[i].start = ChunkDays * DayMs
    /\ \A i \in 1..Len(mmWindows) - 1 : mmWindows[i + 1].start = mmWindows[i].end
    /\ \A i \in 1..Len(mmPairs) :
           \E w \in 1..Len(mmWindows) :
               mmPairs[i].start = mmWindows[w].start /\ mmPairs[i].end = mmWindows[w].end

\* Two windows were entered and global_start is not at the start of a day.
C12_Witness ==
    /\ Len(mmWindows) >= 2
    /\ EpochMsToMoscowDt(mmStartTs).off # 0
    /\ Len(mmPairs) > Len(Channels)

\* The run went through the window loop to its end.
MMRunCompleted == mmPc = "done" /\ mmSinkCleared /\ MaxCreateAt # 0

\* C13: a window is processed exactly when its start is <= global_end: no
\* window starts after global_end, the loop stops at the first window that
\* does, every timestamp of [global_start, global_end] lies in exactly one
\* processed window, and no window is processed when global_end < global_start.
C13_WindowsCoverRange ==
    /\ \A i \in 1..Len(mmWindows) : mmWindows[i].start <= MaxCreateAt
    /\ MMRunCompleted =>
         /\ MaxCreateAt < mmStartTs => mmWindows = <<>>
         /\ mmWindows # <<>> => mmWindows[Len(mmWindows)].end > MaxCreateAt
         /\ \A ts \in mmStartTs..MaxCreateAt :
                Cardinality({i \in 1..Len(mmWindows) :
                                mmWindows[i].start <= ts /\ ts < mmWindows[i].end}) = 1
         /\ \A i \in 1..Len(mmWindows) :
                Cardinality({k \in 1..Len(mmPairs) : mmPairs[k].start = mmWindows[i].start})
                    = Len(Channels)

\* The run is over and its last window starts exactly at global_end.
C13_Witness ==
    /\ MMRunCompleted
    /\ Len(mmWindows) = 2
    /\ mmWindows[2].start = MaxCreateAt

\* C14: the bucketing of a (channel, window) pair makes one bucket per root id
\* fetched for the pair, and every post returned by
\* get_posts_by_ids_or_root_ids is in exactly one place of exactly one bucket:
\* a reply in the bucket of its RootId, a root in its own bucket.
C14_OneBucketPerPost ==
    \A i \in 1..Len(mmPairs) :
        LET pair == mmPairs[i]
            places(id) == {<<r, j>> \in (DOMAIN pair.threads) \X (1..Len(pair.related)) :
                              j <= Len(pair.threads[r]) /\ pair.threads[r][j].Id = id}
        IN  /\ DOMAIN pair.threads = {pair.roots[k].Id : k \in 1..Len(pair.roots)}
            /\ \A r \in DOMAIN pair.threads : Len(pair.threads[r]) <= Len(pair.related)
            /\ \A k \in 1..Len(pair.related) :
                   LET post == pair.related[k]
                   IN  places(post.Id) =
                           {<<r, j>> \in places(post.Id) :
                               r = (IF post.RootId # "" THEN post.RootId ELSE post.Id)}
                       /\ Cardinality(places(post.Id)) = 1
            /\ \A r \in DOMAIN pair.threads :
                   \A j \in 1..Len(pair.threads[r]) :
                       \E k \in 1..Len(pair.related) : pair.related[k] = pair.threads[r][j]

\* A pair with two roots, one of which has a reply, was bucketed.
C14_Witness ==
    \E i \in 1..Len(mmPairs) :
        /\ Len(mmPairs[i].roots) = 2
        /\ Len(mmPairs[i].related) = 3

\* The ids of the root posts whose threads are in a chunk
ChunkRoots(chunk) == {chunk.lines[j].root : j \in 1..Len(chunk.lines)}

\* C15: over a whole run a root post is processed at most once: no root is
\* fetched for two (channel, window) pairs or twice for one pair, and no thread
\* has lines in two chunks.
C15_RootProcessedOnce ==
    /\ \A i, j \in 1..Len(mmPairs) :
           i # j =>
               {mmPairs[i].roots[k].Id : k \in 1..Len(mmPairs[i].roots)}
                 \cap {mmPairs[j].roots[k].Id : k \in 1..Len(mmPairs[j].roots)} = {}
    /\ \A i \in 1..Len(mmPairs) :
           \A j, k \in 1..Len(mmPairs[i].roots) :
               j # k => mmPairs[i].roots[j].Id # mmPairs[i].roots[k].Id
    /\ \A i, j \in 1..Len(mmChunks) :
           i # j => ChunkRoots(mmChunks[i]) \cap ChunkRoots(mmChunks[j]) = {}

\* Chunks of two windows were written, and a root was created at the very end
\* of the first window.
C15_Witness ==
    /\ Len(mmChunks) = 2
    /\ mmChunks[1].start # mmChunks[2].start
    /\ \E k \in 1..Len(mmPosts) :
           mmPosts[k].RootId = "" /\ mmPosts[k].CreateAt = mmChunks[1].end

\* The chunks written, and the uploads issued, for a (channel, window) pair
ChunksOf(pair) ==
    {k \in 1..Len(mmChunks) :
        mmChunks[k].channel = pair.channel /\ mmChunks[k].start = pair.start}
UploadsOf(pair) ==
    {k \in 1..Len(mmUploads) :
        mmUploads[k].channel = pair.channel /\ mmUploads[k].start = pair.start}

\* Some post of the pair's threads has a non-empty normalized text.
HasText(pair) ==
    \E r \in DOMAIN pair.threads :
        \E j \in 1..Len(pair.threads[r]) : CleanMessage(pair.threads[r][j].Message) # ""

\* C16 as stated: for every (channel, window) pair exactly one chunk is written
\* and uploaded when some post of its threads has non-empty normalized text,
\* and none is written or uploaded otherwise.
C16_OneChunkPerNonEmptyPair ==
    \A i \in 1..Len(mmPairs) :
        LET pair == mmPairs[i]
        IN  IF HasText(pair)
            THEN /\ Cardinality(ChunksOf(pair)) = 1
                 /\ Cardinality(UploadsOf(pair)) = 1
                 /\ \A k \in UploadsOf(pair) : mmUploads[k].stored
            ELSE ChunksOf(pair) = {} /\ UploadsOf(pair) = {}

\* C16 amended: a pair without a root post, or whose messages are all empty
\* after normalization, gives no chunk and no upload; a pair with text gives
\* exactly one chunk and exactly one call of the upload, unless writing the file
\* fails with an I/O error, which is logged and leaves the pair without chunk
\* and without upload; a failing upload is logged and the run goes on.
C16_OneChunkUnlessWriteFails ==
    \A i \in 1..Len(mmPairs) :
        LET pair == mmPairs[i]
        IN  /\ ~HasText(pair) => ChunksOf(pair) = {} /\ UploadsOf(pair) = {}
            /\ HasText(pair) =>
                 /\ pair.outcome \in {"written", "io_error"}
                 /\ Cardinality(ChunksOf(pair)) = (IF pair.outcome = "written" THEN 1 ELSE 0)
                 /\ Cardinality(UploadsOf(pair)) = Cardinality(ChunksOf(pair))
            /\ \A k \in ChunksOf(pair) : mmChunks[k].lines # <<>>

\* One pair gave a chunk, and another pair had a root post but no text.
C16_Witness ==
    \E i, j \in 1..Len(mmPairs) :
        /\ mmPairs[i].outcome = "written"
        /\ mmPairs[j].roots # <<>>
        /\ ~HasText(mmPairs[j])

(***************************************************************************)
(* Claims about exclusion and grouping in the Teamly processor (Spec)      *)
(***************************************************************************)
\* The exclusion rule as the specification states it: the own id, a breadcrumb
\* sourceId or the relatedParentId is in the excluded set.
StatedExcluded(id, data) ==
    \/ id \in Excluded
    \/ \E i \in 1..Len(data.breadcrumbs) : data.breadcrumbs[i] \in Excluded
    \/ data.parent \in Excluded

\* Details payloads given to the exclusion test: breadcrumbs of up to MaxCrumbs
\* entries, some without sourceId, and a relatedParentId or none.
ExclusionInputs ==
    [id : {""}, title : {""}, text : {""},
     breadcrumbs : UNION {[1..n -> {"root", "x1", ""}] : n \in 0..MaxCrumbs},
     parent : {"", "x1", "g1"}]

\* On every input, listed in the excluded set or not, the exclusion test gives
\* the stated result.
ExclusionTestAsStated ==
    \A id \in {"x1", "a1"} :
        \A data \in ExclusionInputs :
            IsExcludedOrDescendant(id, data) = StatedExcluded(id, data)

\* C17: _is_excluded_or_descendant(id, details) is true exactly when id, a
\* breadcrumb sourceId or the relatedParentId of details is in the excluded
\* set; the run logs an item as skipped only in that case and keeps no text of
\* such an item.
C17_ExcludedIffSelfOrAncestor ==
    /\ ExclusionTestAsStated
    /\ \A i \in 1..Len(skipLog) : StatedExcluded(skipLog[i], Details(skipLog[i]))
    /\ \A id \in DOMAIN cleanedTextCache : ~StatedExcluded(id, Details(id))

\* Item a3, whose breadcrumb contains the excluded x1, was skipped, and its
\* sibling a2 was kept.
C17_Witness ==
    /\ \E i \in 1..Len(skipLog) : skipLog[i] = "a3"
    /\ "a3" \notin Excluded
    /\ "a2" \in DOMAIN cleanedTextCache

\* The listed items that are excluded or have an excluded ancestor
ExcludedItems ==
    {x \in UNION {SeqSet(PageItems(p)) : p \in 1..MaxPages} : StatedExcluded(x, Details(x))}

\* C18: no group's member list contains an item that is excluded or has an
\* excluded ancestor, no combined chunk contains the title or text of such an
\* item, and the step that drops such an item raises no error and goes on with
\* the next item.
C18_NoExcludedInGroups ==
    /\ [](/\ \A key \in DOMAIN groups :
                \A j \in 1..Len(groups[key]) :
                    ~StatedExcluded(groups[key][j], Details(groups[key][j]))
          /\ \A f \in DOMAIN chunks :
                \A j \in 1..Len(chunks[f].blocks) :
                    /\ chunks[f].blocks[j].id \notin ExcludedItems
                    /\ \A x \in ExcludedItems :
                           /\ chunks[f].blocks[j].title \notin {Details(x).title, x} \ {""}
                           /\ chunks[f].blocks[j].text \notin
                                  {Details(x).text, Details(x).title} \ {""})
    /\ [][skipLog' # skipLog =>
             /\ runError' = "none"
             /\ pc' \in {"details", "combine"}
             /\ groups' = groups
             /\ detailsCache' = detailsCache]_vars

\* The run is over: a3 was dropped and the group of its second-level node g2
\* has a chunk.
C18_Witness ==
    /\ pc = "done"
    /\ \E i \in 1..Len(skipLog) : skipLog[i] = "a3"
    /\ "g2" \in DOMAIN groups
    /\ \E f \in DOMAIN chunks : chunks[f].key = "g2"

\* The group key the specification gives an item: the sourceId of the second
\* breadcrumb entry, "" when there is none.
StatedGroupKey(data) ==
    IF Len(data.breadcrumbs) >= 2 THEN data.breadcrumbs[2] ELSE ""

\* C19: an item with fetched details is a member of no group but the one keyed
\* by the sourceId of its second breadcrumb entry, and is a member of that one
\* once the details loop has handled it; an item whose breadcrumb has fewer
\* than two entries, or whose second entry has no sourceId, is a member of no
\* group and appears in no combined chunk.
C19_AtMostOneGroup ==
    /\ \A key \in DOMAIN groups :
           \A j \in 1..Len(groups[key]) :
               /\ groups[key][j] \in DOMAIN detailsCache
               /\ key # ""
               /\ key = StatedGroupKey(detailsCache[groups[key][j]])
    /\ \A id \in DOMAIN cleanedTextCache :
           StatedGroupKey(detailsCache[id]) # "" =>
               /\ StatedGroupKey(detailsCache[id]) \in DOMAIN groups
               /\ id \in SeqSet(groups[StatedGroupKey(detailsCache[id])])
    /\ \A id \in DOMAIN detailsCache :
           StatedGroupKey(detailsCache[id]) = "" =>
               /\ \A key \in DOMAIN groups : id \notin SeqSet(groups[key])
               /\ \A f \in DOMAIN chunks :
                      \A j \in 1..Len(chunks[f].blocks) : chunks[f].blocks[j].id # id

\* The run is over: a4 (second breadcrumb entry without sourceId) and g2 (one
\* breadcrumb entry) have details, a1 is in the group of g1, and a chunk exists.
C19_Witness ==
    /\ pc = "done"
    /\ "a4" \in DOMAIN cleanedTextCache
    /\ "g2" \in DOMAIN detailsCache
    /\ "g1" \in DOMAIN groups
    /\ "a1" \in SeqSet(groups["g1"])
    /\ chunks # [k \in {} |-> <<>>]

\* Some member of the group other than the group node has a non-empty text.
GroupHasContent(key) ==
    \E j \in 1..Len(groups[key]) :
        /\ groups[key][j] # key
        /\ groups[key][j] \in DOMAIN cleanedTextCache
        /\ cleanedTextCache[groups[key][j]] # ""

\* C20: the combined chunk of a group holds no block of the group-key item:
\* every block is a member other than the key, with a non-empty text, and a
\* group whose only member is the group node, or whose members all have empty
\* text, gives no chunk and no upload.
C20_GroupNodeTextLeftOut ==
    /\ \A f \in DOMAIN chunks :
           LET key == chunks[f].key
           IN  /\ key \in DOMAIN groups
               /\ GroupHasContent(key)
               /\ \A j \in 1..Len(chunks[f].blocks) :
                      LET block == chunks[f].blocks[j]
                      IN  /\ block.id # key
                          /\ block.id \in SeqSet(groups[key])
                          /\ block.text # ""
                          /\ key \in DOMAIN cleanedTextCache =>
                                 block.text # cleanedTextCache[key]
    /\ Len(combinedPaths) <= Cardinality({key \in DOMAIN groups : GroupHasContent(key)})
    /\ Len(uploads) <= Len(combinedPaths)
    /\ \A i \in 1..Len(uploads) : uploads[i] \in DOMAIN chunks

\* The run is over: the group of g1 holds g1 itself, a1 and the empty e1, and
\* its chunk was written and uploaded.
C20_Witness ==
    /\ pc = "done"
    /\ "g1" \in DOMAIN groups
    /\ SeqSet(groups["g1"]) = {"g1", "a1", "e1"}
    /\ \E f \in DOMAIN chunks : chunks[f].key = "g1"
    /\ uploads # <<>>

(***************************************************************************)
(* C21: the folder label of a group's chunk                                *)
(***************************************************************************)
\* Some call of get_article_details(id) ended with one of the results.
SomeCall(id, results) ==
    \E i \in 1..Len(fetches) : fetches[i].id = id /\ fetches[i].result \in results

C22_FetchedOncePerId ==
    \A i, j \in 1..Len(fetches) : fetches[i].id = fetches[j].id => i = j

(***************************************************************************)
(* C23: the pages requested by list_all_articles                           *)
(***************************************************************************)
RECURSIVE StatedListing(_)
\* The non-excluded items of the pages 1..n, in page order.
StatedListing(n) ==
    IF n = 0 THEN <<>>
    ELSE StatedListing(n - 1) \o FilterSeq(PageItems(n), Excluded)

\* list_all_articles has returned its list.
ListingReturned == pageLog # <<>> /\ pc \in {"details", "combine", "upload", "done"}

\* C23: with every page reporting the same lastPage L >= 1, list_all_articles
\* requests the pages 1, 2, ..., L in ascending order, each once, never a page
\* beyond L, and returns the non-excluded items of these pages in page order.
C23_PagesInOrder ==
    /\ \A i \in 1..Len(pageLog) : pageLog[i] = i
    /\ Len(pageLog) <= srvLastPage
    /\ ListingReturned => /\ Len(pageLog) = srvLastPage
                           /\ allItems = StatedListing(srvLastPage)

\* Witness of C23: two pages were reported, both were requested and the list
\* of both was returned.
C23_Witness ==
    /\ pc = "details"
    /\ srvLastPage = 2
    /\ pageLog = <<1, 2>>
    /\ allItems = <<"a1", "g1", "e1", "a2", "a3", "a4">>

(***************************************************************************)
(* C24: excluded ids are filtered out of every page                        *)
(***************************************************************************)
\* The pages whose items list_all_articles has accumulated.
AccumulatedPages ==
    {p \in 1..Len(pageLog) : p < page \/ (p = page /\ ListingReturned)}

\* C24: the accumulated list holds no item whose id is in the excluded set,
\* holds every non-excluded item of every page fetched so far, and holds
\* nothing but items of the pages requested.
C24_ExcludedFilteredOut ==
    /\ \A i \in 1..Len(allItems) : allItems[i] \notin Excluded
    /\ \A p \in AccumulatedPages :
           \A x \in SeqSet(PageItems(p)) \ Excluded : x \in SeqSet(allItems)
    /\ \A i \in 1..Len(allItems) :
           \E p \in SeqSet(pageLog) : allItems[i] \in SeqSet(PageItems(p))

\* Witness of C24: page 1, which lists the excluded x1, has been accumulated.
C24_Witness ==
    /\ 1 \in AccumulatedPages
    /\ "x1" \in SeqSet(PageItems(1))
    /\ SeqSet(allItems) = {"a1", "g1", "e1"}

(***************************************************************************)
(* C25: clean_text applied twice (SpecText)                                *)
(***************************************************************************)
\* C25: clean_text(clean_text(s)) = clean_text(s) for every text s, and
\* clean_text of an empty or null text is the empty text.
C25_Idempotent ==
    /\ sample.pc = "twice" => sample.twice = sample.once
    /\ sample.pc \in {"once", "twice"} /\ sample.text \in {Null, <<>>} => sample.once = <<>>

(***************************************************************************)
(* C26: delete_files_in_folder (SpecDrive)                                 *)
(***************************************************************************)
\* The trash call of the item handled last failed with an HTTP error.
TrashHttpError == dLast.canTrash /\ dLast.failed # <<>> /\ dLast.failed[1] = "HttpError"

\* What is done with one item: trash when canTrash; hard delete when trashing is
\* not permitted or failed with an HTTP error and canDelete holds; a log entry
\* and the next item when neither removed it.
ItemRules ==
    dLast # NoItem =>
        /\ dLast.canTrash => dLast.calls # <<>> /\ dLast.calls[1] = "trash"
        /\ ~dLast.canTrash => \A i \in 1..Len(dLast.calls) : dLast.calls[i] # "trash"
        /\ dLast.outcome = "trashed" => dLast.canTrash /\ dLast.failed = <<>>
        /\ (~dLast.canTrash \/ TrashHttpError) /\ dLast.canDelete
               => dLast.calls[Len(dLast.calls)] = "delete"
        /\ ~dLast.canDelete => \A i \in 1..Len(dLast.calls) : dLast.calls[i] # "delete"
        /\ (~dLast.canTrash \/ TrashHttpError) /\ ~dLast.canDelete
               => dLast.outcome = "no_permission"
        /\ dLast.outcome \in {"trashed", "deleted"} => dLast.file \notin sink
        /\ dLast.outcome \in {"delete_failed", "no_permission"}
               => dLast.escapes = "none" /\ dLast.file \in sink

\* C26 as stated: delete_files_in_folder never raises, and when it has ended
\* every item of the listing has been handled by the rules for one item.
C26_EveryItemHandled ==
    /\ ~dRaised
    /\ dClearEnd # "raised"
    /\ ItemRules
    /\ dClearEnd # "" => dPending = {}

\* C26: delete_files_in_folder never raises and handles the items by the rules
\* for one item; it handles every item of the listing unless the trash or the
\* delete call of an item raises an exception that is not an HTTP error: that
\* exception is logged by the outer handler and the items not yet reached
\* stay unhandled.
C26_HandledUnlessUnexpected ==
    /\ ~dRaised
    /\ dClearEnd # "raised"
    /\ ItemRules
    /\ dClearEnd # "" /\ dPending # {} =>
           /\ dClearEnd = "unexpected"
           /\ dLast.escapes \notin {"none", "HttpError"}
           /\ dLast.file \in dPending
    /\ dClearEnd \in {"loop", "empty", "list_error"} => dPending = {}

\* Witness of C26: in the second run three items were listed; the last one
\* could be trashed, the trash call failed with an HTTP error and the item was
\* hard-deleted; the loop has handled every item.
C26_Witness ==
    /\ dRun = "rerun"
    /\ dClearEnd = "loop"
    /\ dPc = "upload"
    /\ dLast.calls = <<"trash", "delete">>
    /\ dLast.failed = <<"HttpError">>
    /\ dLast.outcome = "deleted"
    /\ dKept # {}

(***************************************************************************)
(* C27: the sink is cleared before the uploads of a run (SpecDrive)        *)
(***************************************************************************)
\* The files of the sink that the current run did not upload.
Leftovers == {f \in sink : f.run # dRun}

\* The names of the chunk artifacts in a set of files.
ArtifactNames(files) == {f.name : f \in {g \in files : g.run # "before"}}

\* delete_files_in_folder has been called before any create call of the run.
ClearedBeforeUpload == dPc = "create" \/ up # NoUpload => dClearEnd # ""

\* C27 as stated: the sink is cleared before the first upload of a run, and
\* after the second run it holds the same chunk artifacts as after the first
\* run and no artifact of the first run.
C27_RerunReplaces ==
    /\ ClearedBeforeUpload
    /\ dPc = "ran" /\ dRun = "rerun" =>
           /\ \A f \in sink : f.run # "first"
           /\ ArtifactNames(sink) = dSnap \ {OldFile.name}

\* C27: delete_files_in_folder is called before the first upload of a run.
\* After a run the sink holds the files this run uploaded and, of the files
\* that were in it before, exactly those the clearing did not remove (the
\* listing failed, the item could be neither trashed nor deleted, or the loop
\* was left on an unexpected error); when the clearing of the second run
\* removed every file, no artifact of the first run is left and every
\* artifact in the sink is one the first run produced too.
C27_KeptOnlyWhenNotRemoved ==
    /\ ClearedBeforeUpload
    /\ dPc = "ran" => Leftovers = dKept
    /\ dPc = "ran" /\ dRun = "rerun" /\ dKept = {} =>
           /\ \A f \in sink : f.run = "rerun"
           /\ ArtifactNames(sink) \subseteq SeqSet(ChunkNames)

\* Witness of C27: both chunks were in the sink after the first run, the
\* clearing of the second run removed them, and the second run uploaded both
\* again.
C27_Witness ==
    /\ dPc = "ran"
    /\ dRun = "rerun"
    /\ dSnap = {"k1", "k2"}
    /\ dClearEnd = "loop"
    /\ dKept = {}
    /\ sink = {[name |-> "k1", run |-> "rerun"], [name |-> "k2", run |-> "rerun"]}

(***************************************************************************)
(* C28: an I/O failure while a chunk file is written (SpecProcessor)       *)
(***************************************************************************)
\* The Teamly loop over the groups is at a group with content and the step
\* writes no chunk file: writing raised.
TeamlyWriteFailed ==
    /\ pc = "combine"
    /\ idx <= Len(groupOrder)
    /\ GroupHasContent(groupOrder[idx])
    /\ chunks' = chunks

\* The Mattermost loop records a pair whose chunk file could not be written.
MMWriteFailed ==
    /\ Len(mmPairs') = Len(mmPairs) + 1
    /\ mmPairs'[Len(mmPairs')].outcome = "io_error"

\* C28: an I/O failure while one chunk file is written is not fatal: the chunk
\* is not uploaded and the loop goes on with the next (channel, window) pair
\* in the Mattermost processor and with the next group in the Teamly
\* processor.
C28_WriteFailureNotFatal ==
    /\ [][TeamlyWriteFailed =>
             /\ combinedPaths' = combinedPaths
             /\ uploads' = uploads
             /\ idx' = idx + 1
             /\ pc' = "combine"
             /\ runError' = runError]_vars
    /\ [][MMWriteFailed =>
             /\ mmChunks' = mmChunks
             /\ mmUploads' = mmUploads
             /\ chanIdx' = chanIdx + 1
             /\ mmPc' = "window"]_vars
    /\ [](\A i \in 1..Len(uploads) : uploads[i] \in SeqSet(combinedPaths))
    /\ [](\A i \in 1..Len(combinedPaths) : combinedPaths[i] \in DOMAIN chunks)
    /\ [](\A i \in 1..Len(mmPairs) :
             mmPairs[i].outcome = "io_error" =>
                 ChunksOf(mmPairs[i]) = {} /\ UploadsOf(mmPairs[i]) = {})
    /\ [](MMRunCompleted => Len(mmPairs) = Len(mmWindows) * Len(Channels))

\* Witness of C28: the groups of g1 and of g2 both have content; writing the
\* chunk of g1 failed, the chunk of g2 was written after it and uploaded.
C28_Witness ==
    /\ pc = "done"
    /\ groupOrder = <<"g1", "g2">>
    /\ GroupHasContent("g1")
    /\ GroupHasContent("g2")
    /\ \A f \in DOMAIN chunks : chunks[f].key = "g2"
    /\ Len(combinedPaths) = 1
    /\ Len(uploads) = 1

(***************************************************************************)
(* C29, C30: main (SpecCli)                                                *)
(***************************************************************************)
\* C29: an exception raised by a processor is caught once by main and does not
\* leave it, no processor is started after the one that raised, and close() is
\* called on the database session exactly once on every path.
C29_CaughtOnceClosedOnce ==
    /\ ~cPropagated
    /\ cCaught <= 1
    /\ cFailed # "" => cStarted[Len(cStarted)] = cFailed
    /\ cPc = "end" => cCaught = (IF cFailed # "" THEN 1 ELSE 0)
    /\ cCloses <= 1
    /\ cPc = "end" => cCloses = 1

RECURSIVE NamedInOrder(_, _)
\* The processors of names that are in the set wanted, in the order of names.
NamedInOrder(names, wanted) ==
    IF names = <<>> THEN <<>>
    ELSE (IF Head(names) \in wanted THEN <<Head(names)>> ELSE <<>>)
             \o NamedInOrder(Tail(names), wanted)

\* C30: the CLI starts the processors named in its arguments among
\* mattermost, teamly and hr, all three when none is named, each once, in that
\* order, and starts no processor that is not named.
C30_RunsNamedProcessors ==
    cEntry = "cli" =>
        LET wanted == NamedInOrder(ProcessorNames,
                                   IF cArgs = {} THEN SeqSet(ProcessorNames) ELSE cArgs)
        IN  /\ Len(cStarted) <= Len(wanted)
            /\ \A i \in 1..Len(cStarted) : cStarted[i] \in SeqSet(wanted)
            /\ cPc = "end" /\ cFailed = "" => cStarted = wanted

(***************************************************************************)
(* C31, C32, C36: upload_file_to_gdrive (SpecDrive)                        *)
(***************************************************************************)
Is5xx(o) == o.exc = "HttpError" /\ o.status >= 500 /\ o.status < 600
Is413(o) == o.exc = "HttpError" /\ o.status = 413
IsOtherHttp(o) == o.exc = "HttpError" /\ ~Is5xx(o) /\ ~Is413(o)

\* The create calls of the current upload so far all failed with a 5xx status.
All5xx == up.outs # <<>> /\ \A i \in 1..Len(up.outs) : Is5xx(up.outs[i])

\* The current call of upload_file_to_gdrive has returned or raised.
UploadOver == up.result \notin {"none", "running"}

\* C31: when every attempt fails with a 5xx status the upload makes exactly 3
\* attempts, sleeps 2 s before the second and 4 s before the third, then logs
\* the error and returns without raising; an HTTP error that is neither 5xx
\* nor 413 is not retried.
C31_RetriesWithBackoff ==
    /\ All5xx =>
          /\ up.result \in {"running", "error"}
          /\ up.result = "error" <=> Len(up.creates) = 3
          /\ up.slept = SubSeq(<<2, 4>>, 1, Len(up.slept))
          /\ Len(up.slept) = (IF UploadOver THEN 2 ELSE Len(up.creates))
    /\ \A i \in 1..Len(up.outs) :
          IsOtherHttp(up.outs[i]) => i = Len(up.outs) /\ up.result = "error"

C31_Witness ==
    /\ All5xx
    /\ up.result = "error"
    /\ Len(up.creates) = 3
    /\ up.slept = <<2, 4>>

\* The current upload's step from state u to state v is a create call of an
\* import that failed with 413.
ImportTooLarge(u, v) ==
    /\ u.result = "running"
    /\ u.asGdoc
    /\ Len(v.outs) = Len(u.outs) + 1
    /\ Is413(v.outs[Len(v.outs)])

\* C32: an upload requested as a rich document that fails with 413 falls back
\* once to a binary upload, at once and without using up a retry attempt; a
\* second 413, or a 413 of an upload not requested as a rich document, ends
\* the upload with a logged error.
C32_FallbackOnce ==
    /\ [](\A i \in 1..Len(up.outs) :
            Is413(up.outs[i]) =>
                IF up.creates[i] = "gdoc"
                THEN /\ up.triedBinaryFallback
                     /\ \A j \in 1..Len(up.outs) : j > i => up.creates[j] = "binary"
                     /\ i = Len(up.outs) => up.result = "running" /\ ~up.asGdoc
                ELSE i = Len(up.outs) /\ up.result = "error")
    /\ [][ImportTooLarge(up, up') =>
             /\ up'.result = "running"
             /\ up'.creates = Append(up.creates, "gdoc")
             /\ up'.slept = up.slept
             /\ up'.attempt = up.attempt]_vars

C32_Witness ==
    /\ up.result = "error"
    /\ Len(up.outs) = 2
    /\ Is413(up.outs[1])
    /\ Is413(up.outs[2])
    /\ up.creates = <<"gdoc", "binary">>
    /\ up.slept = <<>>

\* C36: whatever the create calls do, upload_file_to_gdrive ends, lets no
\* exception of a create call escape and makes at most 4 create calls; the
\* fallback leaves the attempt counter and the delay as they are.
C36_UploadTerminates ==
    /\ [](/\ Len(up.creates) <= 4
          /\ up.result # "raised"
          /\ up.attempt = 1 + Len(up.slept)
          /\ up.attempt <= 3
          /\ up.delay = 2 * 2 ^ (up.attempt - 1))
    /\ [][ImportTooLarge(up, up') => up'.attempt = up.attempt /\ up'.delay = up.delay]_vars
    /\ (dPc = "create") ~> (dPc # "create" /\ UploadOver)

C36_Witness ==
    /\ UploadOver
    /\ Len(up.creates) = 4
    /\ up.triedBinaryFallback
    /\ up.attempt = 3
    /\ up.delay = 8

(***************************************************************************)
(* C33, C34, C35: channels, lines and replies of the Mattermost processor  *)
(* (SpecMM)                                                                *)
(***************************************************************************)
\* The row of the Posts table with the given id.
PostOfId(id) == mmPosts[CHOOSE k \in 1..Len(mmPosts) : mmPosts[k].Id = id]

\* All lines of all chunks written so far, as <<chunk index, line index>>.
LinePlaces == {<<i, j>> \in (1..Len(mmChunks)) \X (1..Len(mmPosts)) : j <= Len(mmChunks[i].lines)}

\* C33: no chunk is written for a channel whose type is neither O nor P, also
\* when it is a configured channel with root posts in the window; and a post
\* with a non-empty RootId is never taken as a root.
C33_EligibleChannelsAndRoots ==
    /\ \A i \in 1..Len(mmChunks) : ChannelType(mmChunks[i].channel) \in {"O", "P"}
    /\ \A i \in 1..Len(mmUploads) : ChannelType(mmUploads[i].channel) \in {"O", "P"}
    /\ \A i \in 1..Len(mmPairs) :
           /\ ChannelType(mmPairs[i].channel) \notin {"O", "P"} =>
                  mmPairs[i].roots = <<>> /\ mmPairs[i].outcome = "none"
           /\ \A k \in 1..Len(mmPairs[i].roots) : mmPairs[i].roots[k].RootId = ""
           /\ \A r \in DOMAIN mmPairs[i].threads : PostOfId(r).RootId = ""
    /\ \A pl \in LinePlaces : PostOfId(mmChunks[pl[1]].lines[pl[2]].root).RootId = ""

\* The pair of a channel of type D was processed whose window holds a root
\* post of that channel, and the pair of the same window of the open channel
\* holds a reply.
C33_Witness ==
    \E i, j \in 1..Len(mmPairs) :
        /\ ChannelType(mmPairs[i].channel) = "D"
        /\ \E k \in 1..Len(mmPosts) :
               /\ mmPosts[k].ChannelId = mmPairs[i].channel
               /\ mmPosts[k].RootId = ""
               /\ mmPosts[k].CreateAt >= mmPairs[i].start
               /\ mmPosts[k].CreateAt < mmPairs[i].end
        /\ mmPairs[j].start = mmPairs[i].start
        /\ mmPairs[j].outcome = "written"
        /\ \E k \in 1..Len(mmPosts) :
               /\ mmPosts[k].RootId # ""
               /\ mmPosts[k].ChannelId = mmPairs[j].channel
               /\ mmPosts[k].CreateAt >= mmPairs[j].start
               /\ mmPosts[k].CreateAt < mmPairs[j].end

\* The lines of the chunks of a pair that come from the post with the given id.
LinesOfPost(pair, id) ==
    {pl \in LinePlaces : /\ pl[1] \in ChunksOf(pair)
                         /\ mmChunks[pl[1]].lines[pl[2]].post = id}

\* C34: the lines of a chunk go thread by thread: the threads in ascending
\* CreateAt of their roots, the lines of a thread next to each other; a post
\* whose message is empty before or after clean_text gives no line, every other
\* post of a thread gives one, and the author of a post who is not in the Users
\* table is written user_<UserId>.
C34_ThreadByThread ==
    /\ \A i \in 1..Len(mmChunks) :
           LET lines == mmChunks[i].lines
           IN  /\ \A j, k \in 1..Len(lines) :
                      j < k /\ lines[j].root # lines[k].root =>
                          PostOfId(lines[j].root).CreateAt <= PostOfId(lines[k].root).CreateAt
               /\ \A j, k, l \in 1..Len(lines) :
                      j < k /\ k < l /\ lines[j].root = lines[l].root =>
                          lines[k].root = lines[j].root
               /\ \A j \in 1..Len(lines) :
                      LET post == PostOfId(lines[j].post)
                      IN  /\ post.Message # ""
                          /\ lines[j].message # ""
                          /\ lines[j].message = CleanMessage(post.Message)
                          /\ lines[j].ts = post.CreateAt
                          /\ lines[j].user = (IF post.UserId \in KnownUsers
                                              THEN Username(post.UserId)
                                              ELSE "user_" \o post.UserId)
    /\ \A i \in 1..Len(mmPairs) :
           \A r \in DOMAIN mmPairs[i].threads :
               \A j \in 1..Len(mmPairs[i].threads[r]) :
                   LET post == mmPairs[i].threads[r][j]
                   IN  Cardinality(LinesOfPost(mmPairs[i], post.Id)) =
                           (IF /\ mmPairs[i].outcome = "written"
                               /\ post.Message # ""
                               /\ CleanMessage(post.Message) # ""
                            THEN 1 ELSE 0)

\* A chunk has the lines of two threads, one of them of an author who is not
\* in the Users table, and a post of its pair has a message that is empty
\* after clean_text.
C34_Witness ==
    \E i \in 1..Len(mmPairs) :
        /\ mmPairs[i].outcome = "written"
        /\ \E r \in DOMAIN mmPairs[i].threads :
               \E j \in 1..Len(mmPairs[i].threads[r]) :
                   /\ mmPairs[i].threads[r][j].Message # ""
                   /\ CleanMessage(mmPairs[i].threads[r][j].Message) = ""
        /\ \E c \in ChunksOf(mmPairs[i]) :
               /\ Len(mmChunks[c].lines) = 2
               /\ mmChunks[c].lines[1].root # mmChunks[c].lines[2].root
               /\ \E j \in 1..2 : mmChunks[c].lines[j].user = "user_u9"

\* The lines, over all chunks, that come from the post with the given id.
LinesOf(id) == {pl \in LinePlaces : mmChunks[pl[1]].lines[pl[2]].post = id}

\* The replies in the Posts table that have a text after clean_text.
RepliesWithText ==
    {k \in 1..Len(mmPosts) :
        /\ mmPosts[k].RootId # ""
        /\ mmPosts[k].Message # ""
        /\ CleanMessage(mmPosts[k].Message) # ""}

\* C35: over a whole run a post has at most one line, in at most one chunk; a
\* reply is in the chunk of the window that holds the CreateAt of its root,
\* wherever its own CreateAt lies; a reply whose root was created before
\* global_start is in no chunk.
C35_ReplyFollowsRoot ==
    /\ \A k \in 1..Len(mmPosts) : Cardinality(LinesOf(mmPosts[k].Id)) <= 1
    /\ \A pl \in LinePlaces :
           LET chunk == mmChunks[pl[1]]
               line == chunk.lines[pl[2]]
               root == PostOfId(line.root)
           IN  /\ line.root = (IF PostOfId(line.post).RootId # ""
                               THEN PostOfId(line.post).RootId ELSE line.post)
               /\ chunk.start <= root.CreateAt
               /\ root.CreateAt < chunk.end
               /\ chunk.channel = root.ChannelId
    /\ \A k \in RepliesWithText :
           LET root == PostOfId(mmPosts[k].RootId)
           IN  /\ root.CreateAt < mmStartTs => LinesOf(mmPosts[k].Id) = {}
               /\ MMRunCompleted /\ root.CreateAt >= mmStartTs
                     /\ ChannelType(root.ChannelId) \in {"O", "P"} =>
                       \E i \in 1..Len(mmPairs) :
                           /\ mmPairs[i].channel = root.ChannelId
                           /\ mmPairs[i].start <= root.CreateAt
                           /\ root.CreateAt < mmPairs[i].end
                           /\ mmPairs[i].outcome \in {"written", "io_error"}
                           /\ mmPairs[i].outcome = "written" =>
                                  Cardinality(LinesOfPost(mmPairs[i], mmPosts[k].Id)) = 1

\* The run is over; one reply has its line in the chunk of its root although
\* it was created after the end of that window, and the other reply was
\* created before the start of the window of its root.
C35_Witness ==
    /\ MMRunCompleted
    /\ \E pl, ql \in LinePlaces :
           LET chunk == mmChunks[pl[1]]
               line == chunk.lines[pl[2]]
               other == mmChunks[ql[1]].lines[ql[2]]
           IN  /\ ql[1] = pl[1]
               /\ line.post # line.root
               /\ line.ts >= chunk.end
               /\ other.post # other.root
               /\ other.ts < chunk.start

\* The run is over and a reply with text has a root that was created before
\* global_start.
C35_RootBeforeStart ==
    /\ MMRunCompleted
    /\ mmChunks # <<>>
    /\ \E k \in RepliesWithText : PostOfId(mmPosts[k].RootId).CreateAt < mmStartTs

(***************************************************************************)
(* C37: a run that lacks what it needs (SpecProcessor)                     *)
(***************************************************************************)
\* A token file is missing or empty.
TokenFileEmpty == ReadTokenFromFile(fileAccess) = NoneTok \/ ReadTokenFromFile(fileRefresh) = NoneTok

\* C37: with a token file missing or empty TeamlyProcessor.run returns before
\* any effect: no request to the content API, no refresh, the temp directory
\* and the sink folder are not cleared, nothing is written or uploaded; and
\* MattermostProcessor.run clears no sink folder and uploads nothing without a
\* Drive service or without a destination folder id.
C37_AbortsBeforeAnyEffect ==
    /\ pc # "off" /\ TokenFileEmpty =>
          /\ pc \in {"start", "done"}
          /\ rq = IdleRq
          /\ issued = 0
          /\ pageLog = <<>>
          /\ fetches = <<>>
          /\ ~tempCleared
          /\ ~sinkCleared
          /\ combinedPaths = <<>>
          /\ uploads = <<>>
          /\ runError = "none"
    /\ mmPc # "off" /\ (~mmEnv.service \/ ~mmEnv.folderId) =>
          /\ mmPc \in {"start", "done"}
          /\ ~mmSinkCleared
          /\ mmPairs = <<>>
          /\ mmChunks = <<>>
          /\ mmUploads = <<>>

\* A Teamly run has returned with an access token and an empty file of the
\* refresh token.
C37_Witness ==
    /\ pc = "done"
    /\ Truthy(accessToken)
    /\ fileRefresh = EmptyStr

\* A Mattermost run has returned that had a Drive service and no folder id.
C37_AbortedMM ==
    /\ mmPc = "done"
    /\ mmEnv.service
    /\ ~mmEnv.folderId
    /\ mmPosts # <<>>

(***************************************************************************)
(* C38: the sink folder and the listing in a Teamly run (Spec)             *)
(***************************************************************************)
\* C38: the sink folder is cleared only after the listing of the articles has
\* succeeded: it is not cleared while the listing goes on, and a run that a
\* paging error has aborted has not cleared it.
C38_SinkClearedAfterListing ==
    /\ pc = "list" => ~sinkCleared
    /\ pc = "aborted" /\ fetches = <<>> => ~sinkCleared

(***************************************************************************)
(* C39: the chunk files of different groups (Spec)                         *)
(***************************************************************************)
\* C39: different groups that have content give different chunk files: no
\* file is written for two groups, every file written holds the blocks of the
\* group it was written for, and each is handed to the upload once, also when
\* the titles of two groups give the same file name.
C39_DistinctChunkFiles ==
    /\ \A i, j \in 1..Len(combinedPaths) : i # j => combinedPaths[i] # combinedPaths[j]
    /\ Cardinality(DOMAIN chunks) = Len(combinedPaths)
    /\ \A i, j \in 1..Len(uploads) : i # j => uploads[i] # uploads[j]
    /\ \A k \in SeqSet(groupOrder) :
           \A f \in DOMAIN chunks :
               f = SafeName(FolderName(groupTitles, k)) /\ pc \in {"upload", "done"}
                   /\ GroupHasContent(k) => chunks[f].key = k
====
